---- MODULE Spec2Model ----
(***************************************************************************)
(* Verification model of Mermaid-AI-Architect: the Output Cleaner          *)
(* (cleanCode), the Directive Patcher (updateInitConfig, getInitVariable,  *)
(* applyColors) and the Inference Gateway (GeminiService, api/gemini).     *)
(*                                                                         *)
(* Text.  A JavaScript string is modelled as a sequence of tokens.  A      *)
(* token is an indivisible run of characters: BT is one backtick, " " and  *)
(* "\n" are the two whitespace characters, "%%{init:" and "}%%" are the    *)
(* directive markers, "{" "}" "[" "]" ":" "," "\"" are the JSON            *)
(* punctuation characters, and every other token ("mermaid", "graph",      *)
(* "theme", "#", "000", ...) is a run of word characters.  String          *)
(* operations (trim, startsWith, replace, match, replaceAll, JSON.parse,   *)
(* JSON.stringify) are computed on these sequences the way the JavaScript  *)
(* run-time computes them on characters.                                   *)
(***************************************************************************)
EXTENDS Naturals, Sequences, FiniteSets, TLC

VARIABLES
    \* --- Output Cleaner harness ---
    parts,      \* the pieces the raw model output was assembled from
    raw,        \* the raw model output handed to cleanCode
    once,       \* cleanCode(raw)
    twice,      \* cleanCode(cleanCode(raw))
    cpc,        \* "input" -> "cleaned" -> "recleaned"
    \* --- Directive Patcher harness ---
    src0,       \* the diagram source before the first applyOverrides call
    src,        \* the diagram source the caller holds now
    calls,      \* number of updateInitConfig calls made
    before,     \* the source passed to the last call
    lastOv,     \* the overrides passed to the last call
    ret,        \* the last call's outcome: [threw, text]
    written,    \* key -> value of the most recent returned call that supplied it ('' if none)
    got,        \* the last getInitVariable call: [read, code, key, val]
    \* --- Color palette of MermaidRenderer ---
    mermaidCode,        \* the code prop (the parent's mermaidCode state)
    showPalette,        \* useState(false)
    themeEdits,         \* { textColor, primaryColor, lineColor }
    colorReplacements,  \* Record<string, string>, in insertion order
    edits,              \* number of picker changes made
    applies,            \* number of applyColors clicks made
    applied,            \* what the last applyColors click did
    renders,            \* the renderDiagram calls awaiting mermaid: [of, active, by]
    svgContent,         \* useState(''): [shown, of], of the source it was rendered from
    \* --- Inference Gateway: GeminiService -> api/gemini -> model endpoint ---
    apiKey,     \* process.env.API_KEY is set
    gpc,        \* "idle" -> "atRoute" -> "atClient" -> "done"
    greq,       \* the operation called: [action, arg]
    modelResp,  \* what the model endpoint answered to the route
    routeResp,  \* what the route answered to the client
    lost,       \* the client's fetch was rejected (transport error)
    outcome,    \* what the caller of GeminiService got: [threw, val]
    \* --- Interactive Shell (Page), with mermaidCode above as its diagram source ---
    chatHistory,    \* useState<ChatMessage[]>([])
    isProcessing,   \* useState(false)
    isFixing,       \* useState(false)
    genCalls,       \* the generateFromHistory calls awaiting their answer
    fixCalls,       \* the fixDiagram calls awaiting their answer
    error,          \* the renderer's error state: [shown, of], of the source it is about
    stale,          \* the render effect's timer is pending for the present source
    stored,         \* the last source stored from a model response; a fix rejected since
    activeTab,      \* useState<'chat' | 'code'>('chat')
    rendered        \* the chatHistory that Page's last render closed over

cleanVars == <<parts, raw, once, twice, cpc>>

patchVars == <<src0, src, calls, before, lastOv, ret, written, got>>

renderVars == <<renders, svgContent>>

paletteVars ==
    <<mermaidCode, showPalette, themeEdits, colorReplacements, edits, applies, applied,
      renderVars>>

gatewayVars == <<apiKey, gpc, greq, modelResp, routeResp, lost, outcome>>

paletteRest ==
    <<showPalette, themeEdits, colorReplacements, edits, applies, applied, renderVars>>

shellVars ==
    <<chatHistory, isProcessing, isFixing, genCalls, fixCalls, error, stale, stored,
      activeTab, rendered>>

vars == <<cleanVars, patchVars, paletteVars, gatewayVars, shellVars>>

(***************************************************************************)
(* Bounds                                                                  *)
(***************************************************************************)
MaxBody == 3

MaxCalls == 2

MaxEdits == 2

MaxApplies == 1

(***************************************************************************)
(* String primitives                                                       *)
(***************************************************************************)
\* \s of a JavaScript regular expression, and the characters trim() removes
IsWS(t) == t \in {" ", "\n"}

Drop(s, n) == SubSeq(s, n + 1, Len(s))

Take(s, n) == SubSeq(s, 1, n)

startsWith(s, p) == Len(s) >= Len(p) /\ Take(s, Len(p)) = p

endsWith(s, p) == Len(s) >= Len(p) /\ Drop(s, Len(s) - Len(p)) = p

RECURSIVE trimStart(_)
trimStart(s) ==
    IF s # <<>> /\ IsWS(Head(s)) THEN trimStart(Tail(s)) ELSE s

RECURSIVE trimEnd(_)
trimEnd(s) ==
    IF s # <<>> /\ IsWS(s[Len(s)]) THEN trimEnd(Take(s, Len(s) - 1)) ELSE s

\* String.prototype.trim
trim(s) == trimEnd(trimStart(s))

\* all sequences over S of length at most n
RECURSIVE SeqsUpTo(_, _)
SeqsUpTo(S, n) ==
    IF n = 0 THEN {<<>>}
    ELSE LET shorter == SeqsUpTo(S, n - 1)
         IN  shorter \cup {<<x>> \o s : x \in S, s \in {t \in shorter : Len(t) = n - 1}}

(***************************************************************************)
(* Output Cleaner: cleanCode                                               *)
(***************************************************************************)
\* one backtick character
BT == "BT"

Fence == <<BT, BT, BT>>

\* number of tokens matched by /^```(mermaid)?\n?/ on a text that starts with the fence
FenceOpenLen(s) ==
    LET afterTag == IF Len(s) >= 4 /\ s[4] = "mermaid" THEN 4 ELSE 3
    IN  IF Len(s) > afterTag /\ s[afterTag + 1] = "\n" THEN afterTag + 1 ELSE afterTag

\* clean.replace(/^```(mermaid)?\n?/, '').replace(/```$/, '')
stripFence(s) ==
    LET opened == Drop(s, FenceOpenLen(s))
    IN  IF endsWith(opened, Fence) THEN Take(opened, Len(opened) - 3) ELSE opened

rewriteGraph_IgnoreCase(s) ==
    IF Len(s) >= 2 /\ s[1] \in {"graph", "Graph"} /\ s[2] = " "
    THEN <<"flowchart", " ">> \o Drop(s, 2)
    ELSE s

\* clean.replace(/^graph /, 'flowchart ') under the guard clean.startsWith('graph ')
rewriteGraph(s) ==
    IF startsWith(s, <<"graph", " ">>) THEN <<"flowchart", " ">> \o Drop(s, 2) ELSE s

\* the fence step: only a text that starts with the fence is changed
unfence(t) ==
    IF startsWith(t, Fence) THEN stripFence(t) ELSE t

cleanCode_NoSecondTrim(r) == rewriteGraph(unfence(trim(r)))

cleanCode_KeepClosingFence(r) ==
    rewriteGraph(trim(IF startsWith(trim(r), Fence)
                      THEN Drop(trim(r), FenceOpenLen(trim(r)))
                      ELSE trim(r)))

cleanCode(r) == rewriteGraph(trim(unfence(trim(r))))

(***************************************************************************)
(* JSON values.  A value is [t |-> type, s |-> tokens, c |-> children]:     *)
(*   "str"  s = the string's tokens                                        *)
(*   "obj"  c = the members [k, v] in insertion order (keys unique)        *)
(*   "arr"  c = the elements                                               *)
(*   "null", "true"  neither                                               *)
(***************************************************************************)
Q == "\""

\* the two-character escape sequence backslash-n inside a JSON string
EscNL == "\\n"

\* the escape sequence backslash-quote inside a JSON string
EscQ == "\\\""

\* the escape sequences of the two above: JSON text carried in a JSON string
Esc2NL == "\\\\n"

Esc2Q == "\\\\\\\""

Str(s) == [t |-> "str", s |-> s, c |-> <<>>]

Obj(m) == [t |-> "obj", s |-> <<>>, c |-> m]

Arr(a) == [t |-> "arr", s |-> <<>>, c |-> a]

Null == [t |-> "null", s |-> <<>>, c |-> <<>>]

Undefined == [t |-> "undef", s |-> <<>>, c |-> <<>>]

True == [t |-> "true", s |-> <<>>, c |-> <<>>]

\* JavaScript truthiness (ToBoolean)
Truthy(x) ==
    CASE x.t \in {"null", "undef"} -> FALSE
      [] x.t = "str"  -> x.s # <<>>
      [] OTHER        -> TRUE

ObjHas(m, k) == \E i \in 1..Len(m) : m[i].k = k

\* obj[k]; the caller checks ObjHas first (undefined otherwise)
ObjGet(m, k) == m[CHOOSE i \in 1..Len(m) : m[i].k = k].v

\* obj[k] = v: an existing key keeps its place, a new key is appended
ObjSet(m, k, x) ==
    IF ObjHas(m, k)
    THEN [i \in 1..Len(m) |-> IF m[i].k = k THEN [k |-> k, v |-> x] ELSE m[i]]
    ELSE Append(m, [k |-> k, v |-> x])

\* { ...a, ...b }
RECURSIVE ObjSpread(_, _)
ObjSpread(a, b) ==
    IF b = <<>> THEN a ELSE ObjSpread(ObjSet(a, Head(b).k, Head(b).v), Tail(b))

\* first index >= i that holds no whitespace (Len(s) + 1 when there is none)
RECURSIVE SkipWS(_, _)
SkipWS(s, i) ==
    IF i <= Len(s) /\ IsWS(s[i]) THEN SkipWS(s, i + 1) ELSE i

Fail == [ok |-> FALSE, val |-> Null, pos |-> 0]

Parsed(x, p) == [ok |-> TRUE, val |-> x, pos |-> p]

\* a string literal's characters with the escape sequences resolved
Unescape(r) ==
    [j \in 1..Len(r) |->
        CASE r[j] = EscNL  -> "\n"
          [] r[j] = EscQ   -> Q
          [] r[j] = Esc2NL -> EscNL
          [] r[j] = Esc2Q  -> EscQ
          [] OTHER         -> r[j]]

\* the string literal whose characters start at i, up to its closing quote; a
\* raw newline inside a literal is a syntax error
ParseString(s, i) ==
    IF ~\E j \in i..Len(s) : s[j] = Q THEN Fail
    ELSE LET close == CHOOSE j \in i..Len(s) :
                          s[j] = Q /\ \A h \in i..(j - 1) : s[h] # Q
             lit   == SubSeq(s, i, close - 1)
         IN  IF \E h \in 1..Len(lit) : lit[h] = "\n" THEN Fail
             ELSE Parsed(Str(Unescape(lit)), close + 1)

RECURSIVE ParseValue(_, _)
RECURSIVE ParseMembers(_, _, _)
RECURSIVE ParseElements(_, _, _)

\* members of an object from i (just before a key) to the closing brace
ParseMembers(s, i, acc) ==
    LET a == SkipWS(s, i)
    IN  IF a > Len(s) \/ s[a] # Q THEN Fail
        ELSE LET key == ParseString(s, a + 1)
             IN  IF ~key.ok THEN Fail
                 ELSE LET c == SkipWS(s, key.pos)
                      IN  IF c > Len(s) \/ s[c] # ":" THEN Fail
                          ELSE LET val == ParseValue(s, c + 1)
                               IN  IF ~val.ok THEN Fail
                                   ELSE LET d   == SkipWS(s, val.pos)
                                            now == ObjSet(acc, key.val.s, val.val)
                                        IN  IF d > Len(s) THEN Fail
                                            ELSE IF s[d] = "}" THEN Parsed(Obj(now), d + 1)
                                            ELSE IF s[d] = "," THEN ParseMembers(s, d + 1, now)
                                            ELSE Fail

\* elements of an array from i (just before an element) to the closing bracket
ParseElements(s, i, acc) ==
    LET val == ParseValue(s, i)
    IN  IF ~val.ok THEN Fail
        ELSE LET d   == SkipWS(s, val.pos)
                 now == Append(acc, val.val)
             IN  IF d > Len(s) THEN Fail
                 ELSE IF s[d] = "]" THEN Parsed(Arr(now), d + 1)
                 ELSE IF s[d] = "," THEN ParseElements(s, d + 1, now)
                 ELSE Fail

ParseValue(s, i) ==
    LET a == SkipWS(s, i)
    IN  IF a > Len(s) THEN Fail
        ELSE CASE s[a] = Q      -> ParseString(s, a + 1)
               [] s[a] = "null" -> Parsed(Null, a + 1)
               [] s[a] = "true" -> Parsed(True, a + 1)
               [] s[a] = "{"    ->
                    LET b == SkipWS(s, a + 1)
                    IN  IF b <= Len(s) /\ s[b] = "}" THEN Parsed(Obj(<<>>), b + 1)
                        ELSE ParseMembers(s, a + 1, <<>>)
               [] s[a] = "["    ->
                    LET b == SkipWS(s, a + 1)
                    IN  IF b <= Len(s) /\ s[b] = "]" THEN Parsed(Arr(<<>>), b + 1)
                        ELSE ParseElements(s, a + 1, <<>>)
               [] OTHER         -> Fail

\* JSON.parse: ok = FALSE stands for the SyntaxError it throws
JSONparse(s) ==
    LET r == ParseValue(s, 1)
    IN  IF r.ok /\ SkipWS(s, r.pos) = Len(s) + 1 THEN r ELSE Fail

\* a newline, a quote or a backslash inside a string is written as its
\* escape sequence
Escape(s) ==
    [i \in 1..Len(s) |->
        CASE s[i] = "\n"  -> EscNL
          [] s[i] = Q     -> EscQ
          [] s[i] = EscNL -> Esc2NL
          [] s[i] = EscQ  -> Esc2Q
          [] OTHER        -> s[i]]

RECURSIVE JSONstringify(_)
RECURSIVE StringifyMembers(_)
RECURSIVE StringifyElements(_)

StringifyMembers(m) ==
    IF m = <<>> THEN <<>>
    ELSE <<Q>> \o Escape(Head(m).k) \o <<Q, ":">> \o JSONstringify(Head(m).v)
         \o (IF Len(m) > 1 THEN <<",">> ELSE <<>>) \o StringifyMembers(Tail(m))

StringifyElements(a) ==
    IF a = <<>> THEN <<>>
    ELSE JSONstringify(Head(a))
         \o (IF Len(a) > 1 THEN <<",">> ELSE <<>>) \o StringifyElements(Tail(a))

\* JSON.stringify of a parsed or constructed value
JSONstringify(x) ==
    CASE x.t = "str"  -> <<Q>> \o Escape(x.s) \o <<Q>>
      [] x.t = "null" -> <<"null">>
      [] x.t = "true" -> <<"true">>
      [] x.t = "obj"  -> <<"{">> \o StringifyMembers(x.c) \o <<"}">>
      [] x.t = "arr"  -> <<"[">> \o StringifyElements(x.c) \o <<"]">>

(***************************************************************************)
(* Directive Patcher: updateInitConfig, getInitVariable                    *)
(***************************************************************************)
InitOpen == "%%{init:"

InitClose == "}%%"

TV == <<"themeVariables">>

THEME == <<"theme">>

NoMatch == [found |-> FALSE, index |-> 0, capFrom |-> 0, capTo |-> 0, last |-> 0]

\* the leftmost of a set of positions (0: the set is empty)
Least(P) == IF P = {} THEN 0 ELSE CHOOSE i \in P : \A h \in P : i <= h

\* the lazy group ({[\s\S]*?}) followed by \s*\}%% : the first closing brace at
\* or after k that is followed by optional whitespace and the closing marker
CaptureEnd(s, k) ==
    Least({h \in k..Len(s) :
              s[h] = "}" /\ SkipWS(s, h + 1) <= Len(s)
                         /\ s[SkipWS(s, h + 1)] = InitClose})

\* the match once the capture's last brace k is known (0: there is none)
matchClosed(s, i, j, k) ==
    IF k = 0 THEN NoMatch
    ELSE [found |-> TRUE, index |-> i, capFrom |-> j, capTo |-> k,
          last |-> SkipWS(s, k + 1)]

\* the match once the position j after \s* is known
matchOpened(s, i, j) ==
    IF j > Len(s) \/ s[j] # "{" THEN NoMatch
    ELSE matchClosed(s, i, j, CaptureEnd(s, j + 1))

\* an attempt of /%%\{init:\s*({[\s\S]*?})\s*\}%%/ at position i
MatchAt(s, i) ==
    IF s[i] # InitOpen THEN NoMatch ELSE matchOpened(s, i, SkipWS(s, i + 1))

\* the attempt at position i (0: no position is left to try)
matchFirst(s, i) == IF i = 0 THEN NoMatch ELSE MatchAt(s, i)

\* code.match(initRegex): the leftmost match; index is where match[0] starts,
\* last where it ends, capFrom..capTo is match[1]
matchInit(code) ==
    matchFirst(code, Least({i \in 1..Len(code) : MatchAt(code, i).found}))

\* { themeVariables: {}, theme: 'base' }
DefaultConfig ==
    << [k |-> TV, v |-> Obj(<<>>)], [k |-> THEME, v |-> Str(<<"base">>)] >>

mergeExisting_DefaultsWin(existing) ==
    LET c == ObjSpread(existing, DefaultConfig)
    IN  IF ~Truthy(ObjGet(c, TV)) THEN ObjSet(c, TV, Obj(<<>>)) ELSE c

\* config = { ...config, ...existingConfig };
\* if (!config.themeVariables) config.themeVariables = {};
mergeExisting(existing) ==
    LET c == ObjSpread(DefaultConfig, existing)
    IN  IF ~Truthy(ObjGet(c, TV)) THEN ObjSet(c, TV, Obj(<<>>)) ELSE c

\* config.themeVariables[key] = value  (the module is strict-mode code)
\*   on an object: the property is set
\*   on an array:  a named property is set, which JSON.stringify does not write
\*   on a truthy primitive (non-empty string, true): TypeError
setThemeVariable(config, key, value) ==
    LET tv == ObjGet(config, TV)
    IN  CASE tv.t = "obj" ->
               [threw |-> FALSE,
                config |-> ObjSet(config, TV, Obj(ObjSet(tv.c, key, value)))]
          [] tv.t = "arr" -> [threw |-> FALSE, config |-> config]
          [] OTHER        -> [threw |-> TRUE, config |-> config]

\* Object.entries(configUpdates).forEach(...)
RECURSIVE applyUpdates(_, _)
applyUpdates(config, updates) ==
    IF updates = <<>> THEN [threw |-> FALSE, config |-> config]
    ELSE LET r == setThemeVariable(config, Head(updates).k, Head(updates).v)
         IN  IF r.threw THEN r ELSE applyUpdates(r.config, Tail(updates))

\* `%%{init: ${JSON.stringify(config)} }%%`
newInitBlock(config) ==
    <<InitOpen, " ">> \o JSONstringify(Obj(config)) \o <<" ", InitClose>>

\* JSON.parse(match[1]) for the match m
parseMatch(code, m) ==
    IF m.found THEN JSONparse(SubSeq(code, m.capFrom, m.capTo)) ELSE Fail

existing_KeepSpanOnFailure(code, m, p) ==
    IF m.found
    THEN [config |-> IF p.ok THEN mergeExisting(p.val.c) ELSE DefaultConfig,
          prefix |-> Take(code, m.index - 1),
          suffix |-> Drop(code, m.last)]
    ELSE [config |-> DefaultConfig, prefix |-> <<>>, suffix |-> code]

existing_KeepWholeSource(code, m, p) ==
    [config |-> IF m.found /\ p.ok THEN mergeExisting(p.val.c) ELSE DefaultConfig,
     prefix |-> <<>>,
     suffix |-> code]

\* what the try block leaves behind for the match m and the parse outcome p:
\* config, prefix and suffix
existing(code, m, p) ==
    IF m.found /\ p.ok
    THEN [config |-> mergeExisting(p.val.c),
          prefix |-> Take(code, m.index - 1),
          suffix |-> Drop(code, m.last)]
    ELSE [config |-> DefaultConfig, prefix |-> <<>>, suffix |-> code]

readMatch(code, m) == existing(code, m, parseMatch(code, m))

\* lines 31 to 50 of updateInitConfig
readExisting(code) == readMatch(code, matchInit(code))

\* `${prefix}${newInitBlock}\n${suffix.trim()}`
reassemble_NoTrim(prefix, config, suffix) ==
    prefix \o newInitBlock(config) \o <<"\n">> \o suffix

reassemble(prefix, config, suffix) ==
    prefix \o newInitBlock(config) \o <<"\n">> \o trim(suffix)

\* lines 58 and 59, or the exception of line 54
writeBack(e, u) ==
    IF u.threw THEN [threw |-> TRUE, text |-> <<>>]
    ELSE [threw |-> FALSE, text |-> reassemble(e.prefix, u.config, e.suffix)]

\* lines 53 to 59 for the config, prefix and suffix e
updateExisting(e, configUpdates) ==
    writeBack(e, applyUpdates(e.config, configUpdates))

\* updateInitConfig(code, configUpdates); threw = TRUE when an exception leaves it
updateInitConfig(code, configUpdates) ==
    updateExisting(readExisting(code), configUpdates)

variableOf_NoFallback(p, key) ==
    IF ~p.ok THEN Str(<<>>)
    ELSE IF ~ObjHas(p.val.c, TV) THEN Undefined
    ELSE IF ObjGet(p.val.c, TV).t = "obj" /\ ObjHas(ObjGet(p.val.c, TV).c, key)
         THEN ObjGet(ObjGet(p.val.c, TV).c, key)
         ELSE Undefined

\* config.themeVariables?.[key] || '' for the parse outcome p
variableOf(p, key) ==
    IF ~p.ok THEN Str(<<>>)
    ELSE IF ~ObjHas(p.val.c, TV) THEN Str(<<>>)
    ELSE IF ObjGet(p.val.c, TV).t = "obj"
            /\ ObjHas(ObjGet(p.val.c, TV).c, key)
            /\ Truthy(ObjGet(ObjGet(p.val.c, TV).c, key))
         THEN ObjGet(ObjGet(p.val.c, TV).c, key)
         ELSE Str(<<>>)

variableAt(code, m, key) == variableOf(parseMatch(code, m), key)

\* getInitVariable(code, key)
getInitVariable(code, key) == variableAt(code, matchInit(code), key)

(***************************************************************************)
(* Color palette: detectedColors, the palette sync effect, applyColors     *)
(***************************************************************************)
\* runs of three hexadecimal digits
HexTriples == {"000", "111", "222", "333", "fff"}

\* tokens that do not start with a word character: \b holds between a
\* hexadecimal digit and one of these
NonWord ==
    {BT, " ", "\n", InitOpen, InitClose, "{", "}", "[", "]", ":", ",", ";",
     Q, EscNL, EscQ, Esc2NL, Esc2Q, "#", "-->"}

\* the number of hexadecimal digits of a token made of such digits only, else 0
HexDigits(t) ==
    IF t \in HexTriples THEN 3 ELSE IF t \in {"A", "B"} THEN 1 ELSE 0

\* the index of the last token of the run of hexadecimal tokens that starts
\* at i (i - 1 when s[i] is not one)
RECURSIVE HexRunEnd(_, _)
HexRunEnd(s, i) ==
    IF i <= Len(s) /\ HexDigits(s[i]) > 0 THEN HexRunEnd(s, i + 1) ELSE i - 1

RECURSIVE SumDigits(_, _, _)
SumDigits(s, i, j) ==
    IF i > j THEN 0 ELSE HexDigits(s[i]) + SumDigits(s, i + 1, j)

\* the match of a # at i whose run of hexadecimal tokens ends at j
hexRun(s, i, j) ==
    IF SumDigits(s, i + 1, j) \in 3..6 /\ (j = Len(s) \/ s[j + 1] \in NonWord)
    THEN j - i + 1
    ELSE 0

\* the number of tokens /#([0-9a-fA-F]{3,6})\b/ matches at position i (0: no
\* match): the digits after the # are a whole run of 3 to 6 digits that ends
\* the text or is followed by a non-word character
HexMatchLen(s, i) ==
    IF s[i] # "#" THEN 0 ELSE hexRun(s, i, HexRunEnd(s, i + 1))

RECURSIVE matchAllHex(_, _)

\* the leftmost match j at or after the scan position and the matches after
\* it (j = 0: there is none)
matchesFrom(s, j) ==
    IF j = 0 THEN <<>>
    ELSE <<SubSeq(s, j, j + HexMatchLen(s, j) - 1)>>
         \o matchAllHex(s, j + HexMatchLen(s, j))

\* code.match(hexRegex) || [], scanning from position i
matchAllHex(s, i) ==
    matchesFrom(s, Least({j \in i..Len(s) : HexMatchLen(s, j) > 0}))

\* Array.from(new Set(matches)): first occurrences, in order
RECURSIVE Unique(_, _)
Unique(q, seen) ==
    IF q = <<>> THEN <<>>
    ELSE IF Head(q) \in seen THEN Unique(Tail(q), seen)
    ELSE <<Head(q)>> \o Unique(Tail(q), seen \cup {Head(q)})

detectedColors(code) == Unique(matchAllHex(code, 1), {})

\* String.prototype.replaceAll with a non-empty string pattern
RECURSIVE replaceAll(_, _, _)

\* s with its leftmost occurrence of old, at i, and the later ones replaced
\* (i = 0: old does not occur)
replaceFrom(s, old, new, i) ==
    IF i = 0 THEN s
    ELSE Take(s, i - 1) \o new \o replaceAll(Drop(s, i - 1 + Len(old)), old, new)

replaceAll(s, old, new) ==
    replaceFrom(s, old, new,
                Least({i \in 1..Len(s) :
                          /\ i + Len(old) <= Len(s) + 1
                          /\ SubSeq(s, i, i + Len(old) - 1) = old}))

\* a || b
Or(a, b) == IF Truthy(a) THEN a ELSE b

\* the palette sync effect's setThemeEdits argument
syncThemeEdits(code) ==
    [ textColor    |-> Or(getInitVariable(code, <<"textColor">>), Str(<<"#", "333", "333">>)),
      primaryColor |-> Or(getInitVariable(code, <<"primaryColor">>), Str(<<"#", "fff", "fff">>)),
      lineColor    |-> Or(getInitVariable(code, <<"lineColor">>), Str(<<"#", "333", "333">>)) ]

\* the updates record applyColors builds from themeEdits
themeUpdates(te) ==
    (IF Truthy(te.textColor)
     THEN <<[k |-> <<"primaryTextColor">>, v |-> te.textColor]>> ELSE <<>>)
    \o (IF Truthy(te.primaryColor)
        THEN <<[k |-> <<"primaryColor">>, v |-> te.primaryColor]>> ELSE <<>>)
    \o (IF Truthy(te.lineColor)
        THEN <<[k |-> <<"lineColor">>, v |-> te.lineColor]>> ELSE <<>>)

\* Object.entries(colorReplacements).forEach(... newCode.replaceAll(old, new))
RECURSIVE applyReplacements(_, _)
applyReplacements(code, reps) ==
    IF reps = <<>> THEN code
    ELSE applyReplacements(replaceAll(code, Head(reps).k, Head(reps).v.s), Tail(reps))

\* step 2 on the outcome r of step 1
replaced(r, reps) ==
    IF r.threw THEN [threw |-> TRUE, reassembled |-> <<>>, text |-> <<>>]
    ELSE [threw |-> FALSE, reassembled |-> r.text,
          text |-> applyReplacements(r.text, reps)]

\* steps 1 and 2 for the updates record
recolor(code, updates, reps) ==
    replaced(IF updates # <<>> THEN updateInitConfig(code, updates)
             ELSE [threw |-> FALSE, text |-> code],
             reps)

\* applyColors up to onUpdateCode: reassembled is newCode after step 1, text
\* the argument of onUpdateCode; threw = TRUE when updateInitConfig throws
applyColors(code, te, reps) == recolor(code, themeUpdates(te), reps)

\* svgContent before the first render
NoSvg == [shown |-> FALSE, of |-> <<>>]

NoThemeEdits == [textColor |-> Str(<<>>), primaryColor |-> Str(<<>>), lineColor |-> Str(<<>>)]

NothingApplied ==
    [threw |-> FALSE, te |-> NoThemeEdits, reps |-> <<>>, reassembled |-> <<>>,
     text |-> <<>>]

PaletteIdle ==
    /\ mermaidCode = <<>>
    /\ showPalette = FALSE
    /\ themeEdits = NoThemeEdits
    /\ colorReplacements = <<>>
    /\ edits = 0
    /\ applies = 0
    /\ applied = NothingApplied
    /\ renders = <<>>
    /\ svgContent = NoSvg

(***************************************************************************)
(* Inference Gateway: the route's generateFromHistory, fixDiagram and      *)
(* optimizePrompt, the POST handler, and the client's GeminiService.       *)
(* An HTTP exchange is [neterr, ok, body]: neterr when fetch rejects, ok   *)
(* for a 2xx status, body the response text.                               *)
(***************************************************************************)
\* x.k; threw stands for the TypeError of reading a property of null or undefined
Prop(x, k) ==
    IF x.t \in {"null", "undef"} THEN [threw |-> TRUE, val |-> Undefined]
    ELSE IF x.t = "obj" /\ ObjHas(x.c, k) THEN [threw |-> FALSE, val |-> ObjGet(x.c, k)]
    ELSE [threw |-> FALSE, val |-> Undefined]

\* x[0]
First(x) ==
    IF x.t \in {"null", "undef"} THEN [threw |-> TRUE, val |-> Undefined]
    ELSE IF x.t = "arr" /\ x.c # <<>> THEN [threw |-> FALSE, val |-> x.c[1]]
    ELSE IF x.t = "str" /\ x.s # <<>> THEN [threw |-> FALSE, val |-> Str(<<Head(x.s)>>)]
    ELSE [threw |-> FALSE, val |-> Undefined]

\* data.choices[0].message.content
modelContent(data) ==
    LET a == Prop(data, <<"choices">>)
        b == IF a.threw THEN a ELSE First(a.val)
        c == IF b.threw THEN b ELSE Prop(b.val, <<"message">>)
    IN  IF c.threw THEN c ELSE Prop(c.val, <<"content">>)

\* the string JSON.parse makes of its argument (StringOf)
RECURSIVE StringOf(_)
StringOf(x) ==
    CASE x.t = "str"   -> x.s
      [] x.t = "true"  -> <<"true">>
      [] x.t = "null"  -> <<"null">>
      [] x.t = "undef" -> <<"undefined">>
      [] x.t = "obj"   -> <<"[object Object]">>
      [] x.t = "arr"   ->
            IF x.c = <<>> THEN <<>>
            ELSE (IF Head(x.c).t \in {"null", "undef"} THEN <<>> ELSE StringOf(Head(x.c)))
                 \o (IF Len(x.c) > 1 THEN <<",">> \o StringOf(Arr(Tail(x.c))) ELSE <<>>)

\* the canned texts (each one token)
ConnectionErrorText == "<sorry: error or timeout while connecting to the AI service, please retry>"

FixFailedText == "<cannot fix the diagram>"

FixedText == "<fixed the syntax error>"

TYPE == <<"type">>

CONTENT == <<"content">>

Message(text) ==
    Obj(<<[k |-> TYPE, v |-> Str(<<"message">>)], [k |-> CONTENT, v |-> text]>>)

\* { type: 'message', content: "..." } of the catch blocks of generateFromHistory
FallbackMessage == Message(Str(<<ConnectionErrorText>>))

Returned(x) == [threw |-> FALSE, val |-> x]

Thrown(text) == [threw |-> TRUE, val |-> Str(<<text>>)]

\* the outcome of a parse: the value, or threw for its SyntaxError
parsedOrThrown(p) == IF p.ok THEN Returned(p.val) ELSE Thrown("syntax")

\* JSON.parse(content || '{}'), or the TypeError met on the way to the content
parseContent(c) ==
    IF c.threw THEN c
    ELSE parsedOrThrown(JSONparse(IF Truthy(c.val) THEN StringOf(c.val)
                                  ELSE <<"{", "}">>))

\* the same for the outcome data of response.json()
parseData(data) ==
    IF ~data.ok THEN Thrown("json") ELSE parseContent(modelContent(data.val))

\* what the try block has when it reaches JSON.parse: the parsed content, or
\* threw for a rejected fetch, a non-OK status, a body that is not JSON, a
\* TypeError on the way to the content, or a content that is not JSON
parsedContent(e) ==
    IF e.neterr \/ ~e.ok THEN Thrown("fetch") ELSE parseData(JSONparse(e.body))

cleaned_AsReceived(result, content) ==
    IF content.t # "str" THEN FallbackMessage ELSE result

\* lines 179 to 183 for a result of type 'code' with this content
cleaned(result, content) ==
    IF content.t # "str" THEN FallbackMessage
    ELSE Obj(ObjSet(result.c, CONTENT, Str(cleanCode(content.s))))

\* lines 179 to 191 for the outcome of the lines before
tagged(result) ==
    IF result.threw THEN FallbackMessage
    ELSE IF Prop(result.val, TYPE).threw THEN FallbackMessage
    ELSE IF Prop(result.val, TYPE).val = Str(<<"code">>)
         THEN cleaned(result.val, Prop(result.val, CONTENT).val)
         ELSE result.val

\* route.ts generateFromHistory from the fetch on, e the endpoint's answer
generateFromHistory(e) == tagged(parsedContent(e))

\* lines 247 to 250 for the chosen code and explanation
fixResult(chosen, why) ==
    IF chosen.t # "str" THEN Thrown(FixFailedText)
    ELSE Returned(Obj(<<[k |-> <<"code">>, v |-> Str(cleanCode(chosen.s))],
                        [k |-> <<"explanation">>, v |-> why]>>))

\* lines 247 to 254 for the outcome of the lines before
fixed(code, result) ==
    IF result.threw THEN Thrown(FixFailedText)
    ELSE IF Prop(result.val, <<"code">>).threw THEN Thrown(FixFailedText)
    ELSE fixResult(Or(Prop(result.val, <<"code">>).val, Str(code)),
                   Or(Prop(result.val, <<"explanation">>).val, Str(<<FixedText>>)))

\* route.ts fixDiagram from the fetch on
fixDiagram(code, e) == fixed(code, parsedContent(e))

\* lines 317 to 331 for the outcome c of reading the content
optimized(prompt, c) ==
    IF c.threw THEN Message(Str(prompt)) ELSE Message(Or(c.val, Str(prompt)))

optimizedData(prompt, data) ==
    IF ~data.ok THEN Message(Str(prompt)) ELSE optimized(prompt, modelContent(data.val))

\* route.ts optimizePrompt from the fetch on
optimizePrompt(prompt, e) ==
    IF e.neterr \/ ~e.ok THEN Message(Str(prompt))
    ELSE optimizedData(prompt, JSONparse(e.body))

ErrorBody(text) == JSONstringify(Obj(<<[k |-> <<"error">>, v |-> Str(<<text>>)]>>))

Http(ok, body) == [neterr |-> FALSE, ok |-> ok, body |-> body]

FetchRejected == [neterr |-> TRUE, ok |-> FALSE, body |-> <<>>]

\* try { ... return a } catch { b }
orElse(a, b) == IF a.threw THEN b ELSE a

\* NextResponse.json(result), or status 500 when the operation threw
respond(r) ==
    IF r.threw THEN Http(FALSE, ErrorBody("<error while handling the request>"))
    ELSE Http(TRUE, JSONstringify(r.val))

\* the POST handler: status 500 without a key or when the operation throws,
\* else NextResponse.json(result)
POST(key, action, arg, e) ==
    IF ~key THEN Http(FALSE, ErrorBody("<API key not configured>"))
    ELSE CASE action = "generate" -> respond(Returned(generateFromHistory(e)))
           [] action = "fix"      -> respond(fixDiagram(arg, e))
           [] action = "optimize" -> respond(Returned(optimizePrompt(arg, e)))
           [] OTHER               -> Http(FALSE, ErrorBody("<invalid action type>"))

\* response.json() of a delivered 2xx response, or threw
received(r) ==
    IF r.neterr \/ ~r.ok THEN Thrown("fetch") ELSE parsedOrThrown(JSONparse(r.body))

GeminiService_generateFromHistory_Rethrow(r) ==
    IF received(r).threw THEN Thrown(ConnectionErrorText) ELSE received(r)

\* the client's generateFromHistory from the fetch on, r the route's answer
GeminiService_generateFromHistory(r) == orElse(received(r), Returned(FallbackMessage))

\* the client's fixDiagram from the fetch on
GeminiService_fixDiagram(r) == orElse(received(r), Thrown(FixFailedText))

\* the client's optimizePrompt from the fetch on
GeminiService_optimizePrompt(prompt, r) ==
    orElse(received(r), Returned(Message(Str(prompt))))

NoExchange == [neterr |-> FALSE, ok |-> FALSE, body |-> <<>>]

GatewayIdle ==
    /\ apiKey = TRUE
    /\ gpc = "off"
    /\ greq = [action |-> "none", arg |-> <<>>]
    /\ modelResp = NoExchange
    /\ routeResp = NoExchange
    /\ lost = FALSE
    /\ outcome = Returned(Undefined)

NoError == [shown |-> FALSE, of |-> <<>>]

NothingStored ==
    [by |-> "none", code |-> <<>>, raw |-> Undefined, arg |-> <<>>, rejected |-> FALSE]

ShellIdle ==
    /\ chatHistory = <<>>
    /\ isProcessing = FALSE
    /\ isFixing = FALSE
    /\ genCalls = <<>>
    /\ fixCalls = <<>>
    /\ error = NoError
    /\ stale = FALSE
    /\ stored = NothingStored
    /\ activeTab = "chat"
    /\ rendered = chatHistory

(***************************************************************************)
(* Cleaner harness: every raw output assembled from                        *)
(*   lead ++ [fence ++ tag ++ newline] ++ body ++ [fence] ++ trail         *)
(***************************************************************************)
BodyTokens == {BT, " ", "\n", "graph", "mermaid", "A"}

Tags == {<<>>, <<"mermaid">>, <<"python">>}

CleanerParts ==
    [ lead   : {<<>>, <<" ">>},
      opened : BOOLEAN,
      tag    : Tags,
      nl     : {<<>>, <<"\n">>},
      body   : SeqsUpTo(BodyTokens, MaxBody),
      closed : BOOLEAN,
      trail  : {<<>>, <<"\n">>} ]

Assemble(p) ==
    p.lead
    \o (IF p.opened THEN Fence \o p.tag \o p.nl ELSE <<>>)
    \o p.body
    \o (IF p.closed THEN Fence ELSE <<>>)
    \o p.trail

NotRead == [read |-> FALSE, code |-> <<>>, key |-> <<>>, val |-> Str(<<>>)]

PatchIdle ==
    /\ src0 = <<>>
    /\ src = <<>>
    /\ calls = 0
    /\ before = <<>>
    /\ lastOv = <<>>
    /\ ret = [threw |-> FALSE, text |-> <<>>]
    /\ written = <<>>
    /\ got = NotRead

CleanInit ==
    /\ PatchIdle
    /\ PaletteIdle
    /\ GatewayIdle
    /\ ShellIdle
    /\ parts \in {p \in CleanerParts : p.opened \/ (p.tag = <<>> /\ p.nl = <<>>)}
    /\ raw = Assemble(parts)
    /\ once = <<>>
    /\ twice = <<>>
    /\ cpc = "input"

\* the gateway cleans the model's diagram text
Clean ==
    /\ cpc = "input"
    /\ once' = cleanCode(raw)
    /\ cpc' = "cleaned"
    /\ UNCHANGED <<parts, raw, twice>>
    /\ UNCHANGED <<patchVars, paletteVars, gatewayVars, shellVars>>

\* the cleaner applied to its own output
CleanAgain ==
    /\ cpc = "cleaned"
    /\ twice' = cleanCode(once)
    /\ cpc' = "recleaned"
    /\ UNCHANGED <<parts, raw, once>>
    /\ UNCHANGED <<patchVars, paletteVars, gatewayVars, shellVars>>

CleanNext == Clean \/ CleanAgain

SpecClean == CleanInit /\ [][CleanNext]_vars

(***************************************************************************)
(* Patcher harness: diagram sources  pre ++ [directive block] ++ post      *)
(* and a bounded number of updateInitConfig calls                          *)
(***************************************************************************)
Hex(a, b) == <<"#", a, b>>

Member(k, x) == [k |-> k, v |-> x]

PC == <<"primaryColor">>

LC == <<"lineColor">>

PTC == <<"primaryTextColor">>

ThemeChoices == { <<>>, <<Member(THEME, Str(<<"dark">>))>> }

ThemeVariablesChoices ==
    { <<>>,
      <<Member(TV, Null)>>,
      <<Member(TV, Str(<<>>))>>,
      <<Member(TV, Obj(<<>>))>>,
      <<Member(TV, Obj(<<Member(LC, Str(Hex("000", "000")))>>))>>,
      <<Member(TV, Obj(<<Member(PC, Str(Hex("fff", "fff"))),
                         Member(LC, Str(Hex("000", "000")))>>))>>,
      <<Member(TV, Obj(<<Member(PC, Null)>>))>>,
      <<Member(TV, Str(<<"red">>))>>,
      <<Member(TV, Arr(<<Str(<<"red">>)>>))>>,
      <<Member(TV, True)>> }

OtherChoices ==
    { <<>>,
      <<Member(<<"flowchart">>, Obj(<<Member(<<"curve">>, Str(<<"basis">>))>>))>> }

\* payloads that are valid JSON, as the objects they denote
Payloads ==
    {th \o tv \o ot : th \in ThemeChoices, tv \in ThemeVariablesChoices, ot \in OtherChoices}
    \cup {tv \o th : th \in ThemeChoices \ {<<>>}, tv \in ThemeVariablesChoices \ {<<>>}}

Block(g, payload) == <<InitOpen>> \o g \o payload \o g \o <<InitClose>>

\* blocks whose payload is valid JSON; the last is written over several lines
WellFormedBlocks ==
    {Block(<<>>, JSONstringify(Obj(m))) : m \in Payloads}
    \cup {Block(<<" ">>, JSONstringify(Obj(tv))) : tv \in ThemeVariablesChoices}
    \cup {Block(<<" ">>,
            <<"{", " ", Q, "theme", Q, ":", " ", Q, "dark", Q, ",", "\n", " ",
              Q, "themeVariables", Q, ":", " ", "{", " ", Q, "lineColor", Q, ":", " ",
              Q, "#", "000", "000", Q, " ", "}", " ", "}">>)}

\* blocks whose payload JSON.parse rejects: unquoted key, trailing comma,
\* missing brace
MalformedBlocks ==
    { Block(<<" ">>, <<"{", "theme", ":", Q, "dark", Q, "}">>),
      Block(<<" ">>, <<"{", Q, "theme", Q, ":", Q, "dark", Q, ",", "}">>),
      Block(<<" ">>, <<"{", Q, "themeVariables", Q, ":", "{", Q, "lineColor", Q, ":",
                       Q, "#", "000", "000", Q, "}">>) }

\* the text around the block: [before it, after it]
Surroundings ==
    { [pre |-> <<>>, post |-> <<>>],
      [pre |-> <<>>, post |-> <<"\n", "A", "-->", "B", "\n">>],
      [pre |-> <<" ">>, post |-> <<" ", "\n", "A", "-->", "B">>],
      [pre |-> <<"flowchart", " ", "TD", "\n">>,
       post |-> <<" ", "A", "\n", InitOpen, "{", "}", InitClose>>] }

\* sources without a directive block, some with stray marker fragments
PlainSources ==
    { <<>>,
      <<"flowchart", " ", "TD", "\n", "A", "-->", "B">>,
      <<"\n", "flowchart", " ", "TD", "\n", "A", "-->", "B", "\n">>,
      <<" ", "A", " ">>,
      <<InitOpen, " ", "{", "A">>,
      <<"A", "}", " ", InitClose>> }

Sources ==
    {around.pre \o b \o around.post :
        around \in Surroundings, b \in WellFormedBlocks \cup MalformedBlocks}
    \cup PlainSources

OverrideKeys == {PC, LC, PTC}

\* overrides mappings, in Object.entries order
OverrideSets ==
    { <<>>,
      <<Member(PC, Str(Hex("111", "111")))>>,
      <<Member(PC, Str(Hex("222", "222")))>>,
      <<Member(LC, Str(Hex("111", "111")))>>,
      <<Member(PTC, Str(Hex("222", "222"))), Member(LC, Str(Hex("333", "333")))>> }

CleanIdle ==
    /\ parts = [lead |-> <<>>, opened |-> FALSE, tag |-> <<>>, nl |-> <<>>,
                body |-> <<>>, closed |-> FALSE, trail |-> <<>>]
    /\ raw = <<>>
    /\ once = <<>>
    /\ twice = <<>>
    /\ cpc = "idle"

PatchInit ==
    /\ CleanIdle
    /\ PaletteIdle
    /\ GatewayIdle
    /\ ShellIdle
    /\ src0 \in Sources
    /\ src = src0
    /\ calls = 0
    /\ before = <<>>
    /\ lastOv = <<>>
    /\ ret = [threw |-> FALSE, text |-> <<>>]
    /\ written = [k \in OverrideKeys |-> Str(<<>>)]
    /\ got = NotRead

\* the caller's state after the call returned or threw r
Patched(o, r) ==
    /\ ret' = r
    /\ src' = IF r.threw THEN src ELSE r.text
    /\ written' = IF r.threw THEN written
                  ELSE [k \in OverrideKeys |->
                          IF ObjHas(o, k) THEN ObjGet(o, k) ELSE written[k]]

\* newCode = updateInitConfig(code, overrides); the caller keeps its source
\* when the call throws
ApplyOverrides(o) ==
    /\ calls < MaxCalls
    /\ Patched(o, updateInitConfig(src, o))
    /\ before' = src
    /\ lastOv' = o
    /\ calls' = calls + 1
    /\ UNCHANGED <<src0, got>>
    /\ UNCHANGED <<cleanVars, paletteVars, gatewayVars, shellVars>>

\* the keys the palette reads when it opens
ReadKeys == {<<"textColor">>, PC, LC}

\* getInitVariable(code, key) on the source the caller holds
ReadVariable(k) ==
    /\ got' = [read |-> TRUE, code |-> src, key |-> k,
               val |-> getInitVariable(src, k)]
    /\ UNCHANGED <<src0, src, calls, before, lastOv, ret, written>>
    /\ UNCHANGED <<cleanVars, paletteVars, gatewayVars, shellVars>>

PatchNext == \E o \in OverrideSets : ApplyOverrides(o)

ReadNext == \E k \in ReadKeys : ReadVariable(k)

SpecPatch == PatchInit /\ [][PatchNext]_vars

\* getInitVariable on every source of the harness
SpecRead == PatchInit /\ [][ReadNext]_vars

(***************************************************************************)
(* Claims about the Directive Patcher (checked under SpecPatch)            *)
(***************************************************************************)
Contains(s, sub) ==
    \E i \in 0..(Len(s) - Len(sub)) : SubSeq(s, i + 1, i + Len(sub)) = sub

\* number of directive blocks in a text: successive matches of the pattern
RECURSIVE CountBlocks(_)
CountBlocks(s) ==
    IF matchInit(s).found THEN 1 + CountBlocks(Drop(s, matchInit(s).last)) ELSE 0

HasBlock(s) == matchInit(s).found

\* the text of the first directive block, marker to marker
FirstBlockText(s) == SubSeq(s, matchInit(s).index, matchInit(s).last)

\* the outcome of JSON.parse on the first block's payload
FirstPayload(s) == JSONparse(SubSeq(s, matchInit(s).capFrom, matchInit(s).capTo))

WellFormedFirst(s) == HasBlock(s) /\ FirstPayload(s).ok

MalformedFirst(s) == HasBlock(s) /\ ~FirstPayload(s).ok

Keys(m) == {m[i].k : i \in 1..Len(m)}

\* the block written from the default object and the overrides alone
FreshBlock(o) ==
    <<InitOpen, " ">>
    \o JSONstringify(Obj(<<Member(TV, Obj(o)),
                           Member(THEME, Str(<<"base">>))>>))
    \o <<" ", InitClose>>

\* C1: updateInitConfig never throws, whatever the source and the overrides,
\* also when the block's payload is valid JSON of an unexpected shape.
C1_NeverThrows ==
    ~ret.threw

\* C4: after any sequence of applyOverrides calls, getInitVariable(result, k)
\* is the value the most recent call containing k supplied for k.
C4_ReadsLastWritten ==
    \A k \in OverrideKeys :
        written[k] # Str(<<>>) => getInitVariable(src, k) = written[k]

\* C5 (as stated): a block whose payload fails to parse is discarded; the
\* result holds the fresh default-derived block and not the malformed block.
C5_MalformedBlockDiscarded ==
    (calls >= 1 /\ MalformedFirst(before))
        => /\ ~ret.threw
           /\ Contains(ret.text, FreshBlock(lastOv))
           /\ ~Contains(ret.text, FirstBlockText(before))

\* C5 (amended): when the first block's payload fails to parse, the result is
\* the fresh default-derived block with the overrides, a newline, and the whole
\* trimmed source, which still contains the malformed block.
C5_MalformedBlockKept ==
    (calls >= 1 /\ MalformedFirst(before))
        => /\ ~ret.threw
           /\ ret.text = FreshBlock(lastOv) \o <<"\n">> \o trim(before)
           /\ Contains(ret.text, FirstBlockText(before))

\* a call with overrides has returned for a source whose block is malformed
C5_Witness ==
    /\ calls = 1
    /\ MalformedFirst(before)
    /\ lastOv # <<>>
    /\ ~ret.threw
    /\ CountBlocks(ret.text) >= 2

\* the result's first block is the default theme with exactly the overrides
IsFreshFirstBlock(s, o) ==
    /\ WellFormedFirst(s)
    /\ LET new == FirstPayload(s).val.c
       IN  /\ Keys(new) = {TV, THEME}
           /\ ObjGet(new, THEME) = Str(<<"base">>)
           /\ ObjGet(new, TV).t = "obj"
           /\ {ObjGet(new, TV).c[i] : i \in 1..Len(ObjGet(new, TV).c)}
                = {o[i] : i \in 1..Len(o)}

\* C6 (as stated): for a source with no block the result holds exactly one
\* block (theme "base", themeVariables = overrides) and every other character
\* of the source unchanged.
C6_InsertKeepsEveryCharacter ==
    (calls >= 1 /\ ~HasBlock(before))
        => /\ ~ret.threw
           /\ CountBlocks(ret.text) = 1
           /\ IsFreshFirstBlock(ret.text, lastOv)
           /\ ret.text = FirstBlockText(ret.text) \o <<"\n">> \o before

\* C6 (amended): for a source with no block the result holds exactly one
\* block (theme "base", themeVariables = overrides) followed by a newline and
\* the source with its leading and trailing whitespace trimmed.
C6_InsertKeepsTrimmedSource ==
    (calls >= 1 /\ ~HasBlock(before))
        => /\ ~ret.threw
           /\ CountBlocks(ret.text) = 1
           /\ IsFreshFirstBlock(ret.text, lastOv)
           /\ ret.text = FirstBlockText(ret.text) \o <<"\n">> \o trim(before)

\* overrides were applied to a block-less source that has outer whitespace
C6_Witness ==
    /\ calls = 1
    /\ ~HasBlock(before)
    /\ before # trim(before)
    /\ trim(before) # <<>>
    /\ lastOv # <<>>
    /\ ~ret.threw

\* the case of C7: empty overrides applied to a source with a well-formed block
RoundTripCase ==
    calls >= 1 /\ lastOv = <<>> /\ WellFormedFirst(before)

\* the theme of a payload: <<theme>> when it has one, <<>> when it has none
ThemeOf(m) == IF THEME \in Keys(m) THEN <<ObjGet(m, THEME)>> ELSE <<>>

\* the themeVariables of a payload; an absent or falsy one has no entries
ThemeVariablesOf(m) ==
    IF TV \in Keys(m) /\ Truthy(ObjGet(m, TV)) THEN ObjGet(m, TV) ELSE Obj(<<>>)

\* the payload keys other than theme and themeVariables are kept with their values
SameOtherKeys(new, old) ==
    /\ Keys(new) \ {TV, THEME} = Keys(old) \ {TV, THEME}
    /\ \A k \in Keys(old) \ {TV, THEME} : ObjGet(new, k) = ObjGet(old, k)

\* C7 (as stated): applyOverrides(source, {}) on a well-formed block yields a
\* block that parses to the same theme, the same themeVariables keys and
\* values and the same other payload keys as the original block.
C7_RoundTripSamePayload ==
    RoundTripCase
        => /\ ~ret.threw
           /\ WellFormedFirst(ret.text)
           /\ LET old == FirstPayload(before).val.c
                  new == FirstPayload(ret.text).val.c
              IN  /\ ThemeOf(new) = ThemeOf(old)
                  /\ ThemeVariablesOf(new) = ThemeVariablesOf(old)
                  /\ SameOtherKeys(new, old)

\* C7 (amended): applyOverrides(source, {}) on a well-formed block yields a
\* block that parses to the same themeVariables keys and values and the same
\* other payload keys, and to the same theme when the original block has one;
\* when it has none, the rewritten block has theme "base".
C7_RoundTripThemeDefaulted ==
    RoundTripCase
        => /\ ~ret.threw
           /\ WellFormedFirst(ret.text)
           /\ LET old == FirstPayload(before).val.c
                  new == FirstPayload(ret.text).val.c
              IN  /\ ThemeOf(new) =
                        IF ThemeOf(old) = <<>> THEN <<Str(<<"base">>)>> ELSE ThemeOf(old)
                  /\ ThemeVariablesOf(new) = ThemeVariablesOf(old)
                  /\ SameOtherKeys(new, old)

\* empty overrides were applied to a block with a theme, theme variables and
\* another payload key
C7_Witness ==
    /\ calls = 1
    /\ lastOv = <<>>
    /\ WellFormedFirst(before)
    /\ Keys(FirstPayload(before).val.c) = {THEME, TV, <<"flowchart">>}
    /\ ObjGet(FirstPayload(before).val.c, THEME) = Str(<<"dark">>)
    /\ ObjGet(FirstPayload(before).val.c, TV).t = "obj"
    /\ ObjGet(FirstPayload(before).val.c, TV).c # <<>>
    /\ ~ret.threw
    /\ ret.text # before

(***************************************************************************)
(* Claims about the Output Cleaner (checked under SpecClean)               *)
(***************************************************************************)
\* C2 (as stated): clean is idempotent, clean(clean(x)) = clean(x) for every x.
C2_CleanIdempotent ==
    cpc = "recleaned" => twice = once

\* C2 (amended): clean(clean(x)) = clean(x) for every x whose cleaned text
\* clean(x) does not itself begin with a triple-backtick fence.
C2_CleanIdempotentUnlessFenceLeft ==
    (cpc = "recleaned" /\ ~startsWith(once, Fence)) => twice = once

\* a fenced "graph " input has been cleaned twice, the first pass changed it
\* and left no fence
C2_Witness ==
    /\ cpc = "recleaned"
    /\ parts.opened /\ parts.closed
    /\ startsWith(once, <<"flowchart", " ">>)
    /\ ~startsWith(once, Fence)
    /\ twice = once

\* the input is  [ws] ``` tag newline body ``` [ws]
Wrapped(p) == p.opened /\ p.closed /\ p.nl = <<"\n">>

\* the enclosed text after the cleaner's other two steps (trim, keyword rewrite)
EnclosedText(p) ==
    LET b == trim(p.body)
    IN  IF startsWith(b, <<"graph", " ">>) THEN <<"flowchart", " ">> \o Drop(b, 2) ELSE b

\* C3 (as stated): for every fenced input, whatever the language tag, clean
\* removes exactly the opening fence, the tag and its newline and the closing
\* fence, and returns the enclosed text.
C3_FenceRemovedAnyTag ==
    (cpc # "input" /\ Wrapped(parts)) => once = EnclosedText(parts)

\* C3 (amended): for every fenced input with no language tag or the tag
\* "mermaid", clean removes exactly the opening fence, the tag and its newline
\* and the closing fence, and returns the enclosed text.
C3_FenceRemovedMermaidTag ==
    (cpc # "input" /\ Wrapped(parts) /\ parts.tag \in {<<>>, <<"mermaid">>})
        => once = EnclosedText(parts)

\* a fenced input tagged mermaid with a non-empty body has been cleaned
C3_Witness ==
    /\ cpc = "cleaned"
    /\ Wrapped(parts)
    /\ parts.tag = <<"mermaid">>
    /\ parts.body = <<"A", "\n", "A">>
    /\ once = parts.body

(***************************************************************************)
(* Palette harness: MermaidRenderer's color editor on a diagram source     *)
(***************************************************************************)
StyledSource ==
    <<"flowchart", " ", "TD", "\n", "A", "-->", "B", "\n",
      "style", " ", "A", " ", "fill", ":", "#", "000", "000", "\n",
      "style", " ", "B", " ", "fill", ":", "#", "111", "111">>

\* diagram sources the palette is opened on
PaletteCodes ==
    { <<"flowchart", " ", "TD", "\n", "A", "-->", "B">>,
      StyledSource,
      Block(<<" ">>, JSONstringify(Obj(<<Member(THEME, Str(<<"base">>)),
                 Member(TV, Obj(<<Member(LC, Str(Hex("000", "000")))>>))>>)))
          \o <<"\n">> \o StyledSource,
      Block(<<>>, JSONstringify(Obj(<<Member(TV, True)>>)))
          \o <<"\n", "A", "-->", "B", "\n",
               "style", " ", "A", " ", "fill", ":", "#", "000", "000">>,
      <<"flowchart", " ", "TD", "\n", "style", " ", "A", " ",
        "fill", ":", "#", "000", ",", "stroke", ":", "#", "000", "111">> }

\* values an <input type="color"> delivers
PickerColors == {Hex("000", "000"), Hex("111", "111")}

ThemeFields == {"textColor", "primaryColor", "lineColor"}

PaletteInit ==
    /\ CleanIdle
    /\ PatchIdle
    /\ GatewayIdle
    /\ ShellIdle
    /\ mermaidCode \in PaletteCodes
    /\ showPalette = FALSE
    /\ themeEdits = NoThemeEdits
    /\ colorReplacements = <<>>
    /\ edits = 0
    /\ applies = 0
    /\ applied = NothingApplied
    /\ renders = <<>>
    /\ svgContent = NoSvg

\* the palette button, then the sync effect when the palette has opened
TogglePalette ==
    /\ showPalette' = ~showPalette
    /\ IF ~showPalette
       THEN /\ themeEdits' = syncThemeEdits(mermaidCode)
            /\ colorReplacements' = <<>>
       ELSE UNCHANGED <<themeEdits, colorReplacements>>
    /\ UNCHANGED <<mermaidCode, edits, applies, applied, renderVars>>
    /\ UNCHANGED <<cleanVars, patchVars, gatewayVars, shellVars>>

\* onChange of one of the three global pickers
SetThemeEdit(f, c) ==
    /\ showPalette
    /\ edits < MaxEdits
    /\ themeEdits' = [themeEdits EXCEPT ![f] = Str(c)]
    /\ edits' = edits + 1
    /\ UNCHANGED <<mermaidCode, showPalette, colorReplacements, applies, applied>>
    /\ UNCHANGED renderVars
    /\ UNCHANGED <<cleanVars, patchVars, gatewayVars, shellVars>>

\* onChange of the picker of a detected color
SetColorReplacement(i, c) ==
    /\ showPalette
    /\ edits < MaxEdits
    /\ i \in 1..Len(detectedColors(mermaidCode))
    /\ colorReplacements' =
            ObjSet(colorReplacements, detectedColors(mermaidCode)[i], Str(c))
    /\ edits' = edits + 1
    /\ UNCHANGED <<mermaidCode, showPalette, themeEdits, applies, applied, renderVars>>
    /\ UNCHANGED <<cleanVars, patchVars, gatewayVars, shellVars>>

\* the component's state after applyColors did r
Applied(r) ==
    /\ applied' = [threw |-> r.threw, te |-> themeEdits, reps |-> colorReplacements,
                   reassembled |-> r.reassembled, text |-> r.text]
    /\ mermaidCode' = IF r.threw THEN mermaidCode ELSE r.text
    /\ showPalette' = IF r.threw THEN showPalette ELSE FALSE

\* the apply button; when updateInitConfig throws, the handler ends there
ApplyColors ==
    /\ showPalette
    /\ applies < MaxApplies
    /\ Applied(applyColors(mermaidCode, themeEdits, colorReplacements))
    /\ applies' = applies + 1
    /\ UNCHANGED <<themeEdits, colorReplacements, edits, renderVars>>
    /\ UNCHANGED <<cleanVars, patchVars, gatewayVars, shellVars>>

\* the cancel button
CancelColors ==
    /\ showPalette
    /\ showPalette' = FALSE
    /\ colorReplacements' = <<>>
    /\ UNCHANGED <<mermaidCode, themeEdits, edits, applies, applied, renderVars>>
    /\ UNCHANGED <<cleanVars, patchVars, gatewayVars, shellVars>>

\* the Escape key while the palette is open
EscapeKey ==
    /\ showPalette
    /\ showPalette' = FALSE
    /\ UNCHANGED <<mermaidCode, themeEdits, colorReplacements, edits, applies, applied>>
    /\ UNCHANGED renderVars
    /\ UNCHANGED <<cleanVars, patchVars, gatewayVars, shellVars>>

PaletteNext ==
    \/ TogglePalette
    \/ \E f \in ThemeFields : SetThemeEdit(f, Hex("222", "222"))
    \/ \E i \in 1..Len(detectedColors(mermaidCode)), c \in PickerColors :
            SetColorReplacement(i, c)
    \/ ApplyColors
    \/ CancelColors
    \/ EscapeKey

SpecPalette == PaletteInit /\ [][PaletteNext]_vars

(***************************************************************************)
(* Claims about the color palette (checked under SpecPalette)              *)
(***************************************************************************)
\* number of occurrences of sub in s
Count(s, sub) ==
    Cardinality({i \in 0..(Len(s) - Len(sub)) : SubSeq(s, i + 1, i + Len(sub)) = sub})

\* C10: for every literal-replacement map applied by applyColors, every
\* occurrence of each old literal in the reassembled text (the directive block
\* included) is replaced by that entry's new value in the returned text: the
\* returned text holds the new value at least as often as the reassembled
\* text holds the old one.
C10_EveryOccurrenceReplaced ==
    (applies > 0 /\ ~applied.threw) =>
        \A i \in 1..Len(applied.reps) :
            applied.reps[i].k # applied.reps[i].v.s =>
                Count(applied.text, applied.reps[i].v.s)
                    >= Count(applied.reassembled, applied.reps[i].k)

(***************************************************************************)
(* Gateway harness: one GeminiService call, the route's POST handler, the  *)
(* model endpoint's answer                                                 *)
(***************************************************************************)
\* the endpoint's JSON body around a message content
Envelope(content) ==
    JSONstringify(Obj(<<Member(<<"choices">>,
        Arr(<<Obj(<<Member(<<"message">>, Obj(<<Member(CONTENT, content)>>))>>)>>))>>))

Reply(type, content) == Obj(<<Member(TYPE, Str(<<type>>)), Member(CONTENT, content)>>)

FencedDiagram == Fence \o <<"mermaid", "\n", "graph", " ", "TD", "\n", "A", "-->", "B", "\n">> \o Fence

\* message contents the model may produce
ModelContents ==
    { JSONstringify(Reply("code", Str(FencedDiagram))),
      JSONstringify(Reply("code", Str(<<"flowchart", " ", "TD">>))),
      JSONstringify(Reply("message", Str(<<"hello">>))),
      JSONstringify(Reply("diagram", Str(<<"flowchart", " ", "TD">>))),
      JSONstringify(Reply("code", True)),
      JSONstringify(Obj(<<Member(TYPE, Str(<<"code">>))>>)),
      JSONstringify(Obj(<<Member(TYPE, Str(<<"message">>))>>)),
      JSONstringify(Obj(<<Member(<<"code">>, Str(FencedDiagram)),
                          Member(<<"explanation">>, Str(<<"arrow">>))>>)),
      JSONstringify(Obj(<<Member(<<"code">>, Str(<<>>))>>)),
      JSONstringify(Obj(<<Member(<<"code">>, True)>>)),
      JSONstringify(Str(<<"hello">>)),
      <<>>,
      <<"{", "}">>,
      <<"[", "]">>,
      <<"null">>,
      <<"{", Q, "type", Q, ":">>,
      <<"Sure", " ", "here">> }

\* answers of the model endpoint
ModelAnswers ==
    { FetchRejected,
      Http(FALSE, ErrorBody("rate limited")),
      Http(TRUE, <<"<html>">>),
      Http(TRUE, <<"{", "}">>),
      Http(TRUE, JSONstringify(Obj(<<Member(<<"choices">>, Arr(<<>>))>>))),
      Http(TRUE, JSONstringify(Obj(<<Member(<<"choices">>,
                    Arr(<<Obj(<<Member(<<"message">>, Obj(<<>>))>>)>>))>>))),
      Http(TRUE, Envelope(Null)) }
    \cup {Http(TRUE, Envelope(Str(t))) : t \in ModelContents}

FixCodes == { <<"graph", " ", "TD", "\n", "A", "-->">>, <<" ", "flowchart", " ", "TD">> }

Prompts == { <<"draw", " ", "a", "\n", "flow">> }

Requests ==
    {[action |-> "generate", arg |-> <<>>]}
    \cup {[action |-> "fix", arg |-> c] : c \in FixCodes}
    \cup {[action |-> "optimize", arg |-> q] : q \in Prompts}

GatewayInit ==
    /\ CleanIdle
    /\ PatchIdle
    /\ PaletteIdle
    /\ ShellIdle
    /\ apiKey \in BOOLEAN
    /\ gpc = "idle"
    /\ greq = [action |-> "none", arg |-> <<>>]
    /\ modelResp = NoExchange
    /\ routeResp = NoExchange
    /\ lost = FALSE
    /\ outcome = Returned(Undefined)

\* the UI calls a GeminiService operation, which posts to /api/gemini
Request(q) ==
    /\ gpc = "idle"
    /\ greq' = q
    /\ gpc' = "atRoute"
    /\ UNCHANGED <<apiKey, modelResp, routeResp, lost, outcome>>
    /\ UNCHANGED <<cleanVars, patchVars, paletteVars, shellVars>>

\* the route answers at once when no key is configured
RouteRejects ==
    /\ gpc = "atRoute"
    /\ ~apiKey
    /\ routeResp' = POST(apiKey, greq.action, greq.arg, NoExchange)
    /\ gpc' = "atClient"
    /\ UNCHANGED <<apiKey, greq, modelResp, lost, outcome>>
    /\ UNCHANGED <<cleanVars, patchVars, paletteVars, shellVars>>

\* the endpoint answers the route's operation, and the route answers the client
ModelResponds(e) ==
    /\ gpc = "atRoute"
    /\ apiKey
    /\ modelResp' = e
    /\ routeResp' = POST(apiKey, greq.action, greq.arg, e)
    /\ gpc' = "atClient"
    /\ UNCHANGED <<apiKey, greq, lost, outcome>>
    /\ UNCHANGED <<cleanVars, patchVars, paletteVars, shellVars>>

\* the rest of the GeminiService operation, r what its fetch delivered
GeminiService(q, r) ==
    CASE q.action = "generate" -> GeminiService_generateFromHistory(r)
      [] q.action = "fix"      -> GeminiService_fixDiagram(r)
      [] q.action = "optimize" -> GeminiService_optimizePrompt(q.arg, r)

\* the client receives the route's answer
ClientReceives ==
    /\ gpc = "atClient"
    /\ outcome' = GeminiService(greq, routeResp)
    /\ gpc' = "done"
    /\ UNCHANGED <<apiKey, greq, modelResp, routeResp, lost>>
    /\ UNCHANGED <<cleanVars, patchVars, paletteVars, shellVars>>

\* the client's fetch is rejected (network failure)
FetchFails ==
    /\ gpc \in {"atRoute", "atClient"}
    /\ lost' = TRUE
    /\ outcome' = GeminiService(greq, FetchRejected)
    /\ gpc' = "done"
    /\ UNCHANGED <<apiKey, greq, modelResp, routeResp>>
    /\ UNCHANGED <<cleanVars, patchVars, paletteVars, shellVars>>

GatewayNext ==
    \/ \E q \in Requests : Request(q)
    \/ RouteRejects
    \/ \E e \in ModelAnswers : ModelResponds(e)
    \/ ClientReceives
    \/ FetchFails

SpecGateway == GatewayInit /\ [][GatewayNext]_vars

(***************************************************************************)
(* Claims about the Inference Gateway (checked under SpecGateway)          *)
(***************************************************************************)
ModelAnswered == modelResp # NoExchange

\* the endpoint's answer is a transport error, a non-success status or a
\* malformed body for the operation called
EndpointFailed ==
    /\ ModelAnswered
    /\ IF greq.action = "optimize"
       THEN \/ modelResp.neterr
            \/ ~modelResp.ok
            \/ ~JSONparse(modelResp.body).ok
            \/ modelContent(JSONparse(modelResp.body).val).threw
       ELSE parsedContent(modelResp).threw

\* a call that ended after a transport error, a non-success status or a
\* malformed body somewhere between the client and the model
FailureCase ==
    /\ gpc = "done"
    /\ (lost \/ ~routeResp.ok \/ EndpointFailed)

\* the fallback message of the operation called
FallbackOf(q) ==
    IF q.action = "optimize" THEN Message(Str(q.arg)) ELSE FallbackMessage

\* C8 (as stated): for every Gateway operation a transport error, a
\* non-success status or a malformed body is turned into a fallback message
\* result and no exception reaches the caller.
C8_FailuresBecomeFallback ==
    FailureCase => (~outcome.threw /\ outcome.val = FallbackOf(greq))

\* C8 (amended): on such a failure generateFromHistory and optimizePrompt
\* return their fallback message and raise nothing, while fixDiagram rejects
\* with its fixed error.
C8_FallbackExceptFix ==
    FailureCase =>
        IF greq.action = "fix"
        THEN outcome = Thrown(FixFailedText)
        ELSE outcome = Returned(FallbackOf(greq))

\* a generate call whose endpoint answered 200 with a body that is not JSON
C8_Witness ==
    /\ gpc = "done"
    /\ ~lost
    /\ greq.action = "generate"
    /\ modelResp.ok
    /\ ~JSONparse(modelResp.body).ok
    /\ outcome = Returned(FallbackMessage)

IsTagged(x) ==
    /\ x.t = "obj"
    /\ ObjHas(x.c, TYPE)
    /\ ObjGet(x.c, TYPE) \in {Str(<<"code">>), Str(<<"message">>)}
    /\ ObjHas(x.c, CONTENT)
    /\ ObjGet(x.c, CONTENT).t = "str"

\* C9: every value generateFromHistory returns is a tagged result, type
\* 'code' or 'message' with a string content, whatever body the model
\* endpoint returned.
C9_AlwaysTagged ==
    (gpc = "done" /\ greq.action = "generate") =>
        (~outcome.threw /\ IsTagged(outcome.val))

(***************************************************************************)
(* Keyword rewrite harness: raw outputs built from the legacy keyword, its *)
(* capitalised spelling, spaces and a node name, bare or fenced            *)
(***************************************************************************)
MaxWords == 5

GraphTokens == {"graph", "Graph", " ", "A"}

GraphParts ==
    [ lead   : {<<>>, <<" ">>},
      opened : BOOLEAN,
      tag    : {<<>>},
      nl     : {<<"\n">>},
      body   : SeqsUpTo(GraphTokens, MaxWords),
      closed : BOOLEAN,
      trail  : {<<>>, <<" ">>} ]

GraphInit ==
    /\ PatchIdle
    /\ PaletteIdle
    /\ GatewayIdle
    /\ ShellIdle
    /\ parts \in {p \in GraphParts : p.closed = p.opened}
    /\ raw = Assemble(parts)
    /\ once = <<>>
    /\ twice = <<>>
    /\ cpc = "input"

SpecGraph == GraphInit /\ [][CleanNext]_vars

GraphSp == <<"graph", " ">>

FlowchartSp == <<"flowchart", " ">>

\* the raw output has a character that is not whitespace after its first two
NonBlankAfterKeyword == \E i \in 3..Len(raw) : ~IsWS(raw[i])

\* the original reading of C11: every raw output that begins with 'graph '
\* comes out with 'flowchart ' in its place.
C11_EveryGraphInputRewritten ==
    (cpc # "input" /\ startsWith(raw, GraphSp)) =>
        /\ startsWith(once, FlowchartSp)
        /\ Drop(once, 2) = Drop(trimEnd(raw), 2)

\* C11: a raw output that begins with 'graph ' followed by something other
\* than whitespace comes out with that first 'graph ' replaced by
\* 'flowchart ' and the rest of the trimmed text, every later 'graph '
\* included, unchanged; a cleaned text that does not begin with 'graph '
\* (lower case, at position 0) comes out of the rewrite unchanged.
C11_GraphRewrittenOnlyAtStart ==
    (cpc # "input") =>
        /\ (startsWith(raw, GraphSp) /\ NonBlankAfterKeyword) =>
              /\ once = FlowchartSp \o Drop(trimEnd(raw), 2)
              /\ Count(once, GraphSp) = Count(trimEnd(raw), GraphSp) - 1
        /\ ~startsWith(trim(unfence(trim(raw))), GraphSp) =>
              once = trim(unfence(trim(raw)))

C11_Witness ==
    /\ cpc = "cleaned"
    /\ startsWith(raw, GraphSp)
    /\ startsWith(once, FlowchartSp)
    /\ Count(once, GraphSp) >= 1

(***************************************************************************)
(* Further claims about the Directive Patcher (checked under SpecPatch)    *)
(***************************************************************************)
\* the text r around its first block n is the text b around its first block
\* m: the same text before it, and after it a newline and the trimmed rest
SameAround(b, m, r, n) ==
    /\ m.found /\ n.found
    /\ n.index = m.index
    /\ Take(r, n.index - 1) = Take(b, m.index - 1)
    /\ Drop(r, n.last) = <<"\n">> \o trim(Drop(b, m.last))

\* C12: when the source holds more than one directive block, applyOverrides
\* rewrites only the first: the text before the first block is kept byte for
\* byte, and the text after it, every later block included, is kept verbatim
\* up to the trim of its outer whitespace.
C12_OnlyFirstBlockRewritten ==
    (calls >= 1 /\ CountBlocks(before) >= 2) =>
        /\ ~ret.threw
        /\ SameAround(before, matchInit(before), ret.text, matchInit(ret.text))
        /\ CountBlocks(ret.text) = CountBlocks(before)

\* the first block's payload p has a themeVariables object with an entry for key
HasEntry(p, key) ==
    /\ p.ok
    /\ ObjHas(p.val.c, TV)
    /\ ObjGet(p.val.c, TV).t = "obj"
    /\ ObjHas(ObjGet(p.val.c, TV).c, key)

Entry(p, key) == ObjGet(ObjGet(p.val.c, TV).c, key)

\* the original reading of C17: '' without a block, on a parse failure and
\* without an entry for the key, and otherwise the entry, whatever its value
ReadsEntry(g, p) ==
    IF HasBlock(g.code) /\ HasEntry(p, g.key)
    THEN g.val = Entry(p, g.key)
    ELSE g.val = Str(<<>>)

\* '' also when the entry is falsy
ReadsTruthyEntry(g, p) ==
    IF HasBlock(g.code) /\ HasEntry(p, g.key) /\ Truthy(Entry(p, g.key))
    THEN g.val = Entry(p, g.key)
    ELSE g.val = Str(<<>>)

\* C17 (as stated): getInitVariable returns the empty string when the source
\* has no block, when the first block's payload fails to parse or when
\* themeVariables has no entry for the key, and otherwise themeVariables[key].
C17_ReadsEntryOrEmpty ==
    got.read => ReadsEntry(got, FirstPayload(got.code))

\* C17: getInitVariable returns the empty string when the source has no
\* block, when the first block's payload fails to parse, when themeVariables
\* has no entry for the key or when that entry is falsy (null, '', false, 0),
\* and otherwise themeVariables[key] of the first block; the source it read
\* is the source the caller still holds.
C17_ReadsTruthyEntryOrEmpty ==
    got.read =>
        /\ ReadsTruthyEntry(got, FirstPayload(got.code))
        /\ got.code = src

C17_Witness ==
    /\ got.read
    /\ CountBlocks(got.code) >= 2
    /\ got.key = LC
    /\ got.val = Str(Hex("000", "000"))

\* the entries of a payload's themeVariables when it is a mapping, else none
EntriesOf(m) ==
    IF ThemeVariablesOf(m).t = "obj" THEN ThemeVariablesOf(m).c ELSE <<>>

\* tv is the mapping with the entries was, overwritten and extended by o
Overwritten(tv, was, o) ==
    /\ tv.t = "obj"
    /\ Keys(tv.c) = Keys(was) \cup Keys(o)
    /\ \A k \in Keys(o) : ObjGet(tv.c, k) = ObjGet(o, k)
    /\ \A k \in Keys(was) \ Keys(o) : ObjGet(tv.c, k) = ObjGet(was, k)

\* the payload new is the payload old merged over the default, with the
\* overrides o applied to its themeVariables
MergedFrom(old, new, o) ==
    /\ ThemeOf(new) = IF ThemeOf(old) = <<>> THEN <<Str(<<"base">>)>> ELSE ThemeOf(old)
    /\ TV \in Keys(new)
    /\ Overwritten(ObjGet(new, TV), EntriesOf(old), o)
    /\ SameOtherKeys(new, old)

\* C19: for a source with a well-formed directive block, the block written
\* by applyOverrides parses to the parsed theme (or "base"), the parsed
\* themeVariables with every overrides entry inserted or overwritten by key
\* and every other key keeping its value, and all other parsed keys kept.
C19_MergedPayload ==
    (calls >= 1 /\ WellFormedFirst(before)) =>
        /\ ~ret.threw
        /\ WellFormedFirst(ret.text)
        /\ MergedFrom(FirstPayload(before).val.c, FirstPayload(ret.text).val.c, lastOv)

(***************************************************************************)
(* Further claims about the color palette (checked under SpecPalette)      *)
(***************************************************************************)
\* the entries of reps whose old literal stands at position i of s
MatchingAt(s, reps, i) ==
    {j \in 1..Len(reps) :
        /\ i + Len(reps[j].k) <= Len(s) + 1
        /\ SubSeq(s, i, i + Len(reps[j].k) - 1) = reps[j].k}

\* of the entries E, the one with the longest old literal
Longest(reps, E) ==
    CHOOSE j \in E : \A h \in E : Len(reps[h].k) <= Len(reps[j].k)

RECURSIVE ReplaceTogether(_, _)

\* s with the occurrence at i replaced by entry j's new value, and the text
\* behind that occurrence replaced in the same way (i = 0: nothing to replace)
TogetherFrom(s, reps, i, j) ==
    IF i = 0 THEN s
    ELSE Take(s, i - 1) \o reps[j].v.s
         \o ReplaceTogether(Drop(s, i - 1 + Len(reps[j].k)), reps)

\* one left-to-right pass that replaces every old literal of the text by its
\* new value and never looks at the text it has written
ReplaceTogether(s, reps) ==
    LET i == Least({h \in 1..Len(s) : MatchingAt(s, reps, h) # {}})
    IN  TogetherFrom(s, reps, i, IF i = 0 THEN 0 ELSE Longest(reps, MatchingAt(s, reps, i)))

Reverse(q) == [i \in 1..Len(q) |-> q[Len(q) + 1 - i]]

\* C20: the literal-color replacement is simultaneous: the returned text is
\* the reassembled text with every old literal replaced by its new value in
\* one pass (a map {A to B, B to A} swaps the two colors), and it is the same
\* whatever the order of the map's entries.
C20_SimultaneousReplacement ==
    (applies > 0 /\ ~applied.threw) =>
        /\ applied.text = ReplaceTogether(applied.reassembled, applied.reps)
        /\ applied.text = applyReplacements(applied.reassembled, Reverse(applied.reps))

(***************************************************************************)
(* The route's request to the model: the messages generateFromHistory      *)
(* (route.ts) builds from the chat history.  A ChatMessage is              *)
(* [role, content, attachment, type, isError]: content a string value or   *)
(* undefined, attachment its MIME type or "none".                          *)
(***************************************************************************)
CodeHint == "[Context - Current Mermaid Code]:"

TypeHint == "[Context - User Preferred Type]:"

\* contextNote of lines 94 to 100
contextNote(currentCode, diagramType) ==
    (IF currentCode # <<>>
     THEN <<"\n", CodeHint, "\n">> \o currentCode \o <<"\n">> ELSE <<>>)
    \o (IF diagramType # "auto"
        THEN <<"\n", TypeHint, " ", diagramType, "\n">> ELSE <<>>)

roleOf(msg) == IF msg.role = "user" THEN "user" ELSE "assistant"

TextPart(text) ==
    Obj(<<Member(TYPE, Str(<<"text">>)), Member(<<"text">>, Str(text))>>)

ImagePart(mime) ==
    Obj(<<Member(TYPE, Str(<<"image_url">>)),
          Member(<<"image_url">>,
                 Obj(<<Member(<<"url">>, Str(<<"data:", mime, ";base64,", "AAAA">>))>>))>>)

\* lines 89 to 110: a turn with text and no attachment; the note goes to the
\* last turn when it is a user turn
textMessage(msg, isLast, note) ==
    [role |-> roleOf(msg),
     content |-> Str(msg.content.s
                     \o (IF msg.role = "user" /\ isLast THEN note ELSE <<>>))]

\* lines 112 to 148: a turn with an attachment
attachmentMessage(msg) ==
    [role |-> roleOf(msg),
     content |->
        Arr((IF Truthy(msg.content) THEN <<TextPart(msg.content.s)>> ELSE <<>>)
            \o (IF msg.attachment \in {"image/png", "application/pdf"}
                THEN <<ImagePart(msg.attachment),
                       TextPart(<<IF msg.attachment = "application/pdf"
                                  THEN "[PDF Document]" ELSE "[Image]",
                                  ":", " ", "file", "\n", "Please analyze">>)>>
                ELSE <<>>))]

\* the body of history.forEach for one turn: the messages it pushes
pushed(msg, isLast, note) ==
    IF Truthy(msg.content) /\ msg.attachment = "none"
    THEN <<textMessage(msg, isLast, note)>>
    ELSE IF msg.attachment # "none" THEN <<attachmentMessage(msg)>>
    ELSE <<>>

RECURSIVE pushedFrom(_, _, _)
pushedFrom(history, i, note) ==
    IF i > Len(history) THEN <<>>
    ELSE pushed(history[i], i = Len(history), note) \o pushedFrom(history, i + 1, note)

\* lines 78 to 149: the messages of the request
buildMessages(history, currentCode, diagramType) ==
    <<[role |-> "system", content |-> Str(<<"SYSTEM_INSTRUCTION">>)]>>
    \o pushedFrom(history, 1, contextNote(currentCode, diagramType))

(***************************************************************************)
(* Interactive Shell: Page's handleSendMessage and handleFixError, the     *)
(* ChatPanel's submit guard, the code editor and the renderer's render     *)
(* effect and fix button                                                   *)
(***************************************************************************)
\* submissions and fix requests are made while the transcript is shorter
MaxHistory == 2

ConfirmText == "<diagram generated or updated as requested>"

SendFailedText == "<sorry: error while handling your request, please retry>"

FixNote == "<fixed the syntax error, cause:>"

userMessage(text, attachment) ==
    [role |-> "user", content |-> Str(text), attachment |-> attachment,
     type |-> "none", isError |-> FALSE]

modelMessage(content, type, isError) ==
    [role |-> "model", content |-> content, attachment |-> "none",
     type |-> type, isError |-> isError]

canSubmit_IgnoreLoading(inputText, selectedFile, isLoading) ==
    ~(trim(inputText) = <<>> /\ selectedFile = "none")

\* ChatPanel.handleSubmit goes on past its first line
canSubmit(inputText, selectedFile, isLoading) ==
    ~((trim(inputText) = <<>> /\ selectedFile = "none") \/ isLoading)

\* a value put where a string is expected
textOf(v) == IF v.t = "str" THEN v.s ELSE <<"<not a string>">>

sendReply_CodeOnly(o) ==
    IF o.threw \/ Prop(o.val, TYPE).threw
    THEN [set |-> FALSE, code |-> <<>>, say |-> TRUE,
          msg |-> modelMessage(Str(<<SendFailedText>>), "none", TRUE)]
    ELSE IF Prop(o.val, TYPE).val = Str(<<"code">>)
    THEN [set |-> TRUE, code |-> textOf(Prop(o.val, CONTENT).val), say |-> TRUE,
          msg |-> modelMessage(Str(<<ConfirmText>>), "code", FALSE)]
    ELSE [set |-> FALSE, code |-> <<>>, say |-> FALSE,
          msg |-> modelMessage(Prop(o.val, CONTENT).val, "message", FALSE)]

\* lines 59 to 88 of handleSendMessage for the outcome o of the awaited call:
\* whether the source is set and to what, and the message appended
sendReply(o) ==
    IF o.threw \/ Prop(o.val, TYPE).threw
    THEN [set |-> FALSE, code |-> <<>>, say |-> TRUE,
          msg |-> modelMessage(Str(<<SendFailedText>>), "none", TRUE)]
    ELSE IF Prop(o.val, TYPE).val = Str(<<"code">>)
    THEN [set |-> TRUE, code |-> textOf(Prop(o.val, CONTENT).val), say |-> TRUE,
          msg |-> modelMessage(Str(<<ConfirmText>>), "code", FALSE)]
    ELSE [set |-> FALSE, code |-> <<>>, say |-> TRUE,
          msg |-> modelMessage(Prop(o.val, CONTENT).val, "message", FALSE)]

fixReply_Announced(o) ==
    IF o.threw \/ Prop(o.val, <<"code">>).threw
    THEN [set |-> FALSE, code |-> <<>>, say |-> TRUE,
          msg |-> modelMessage(Str(<<FixFailedText>>), "none", TRUE)]
    ELSE [set |-> TRUE, code |-> textOf(Prop(o.val, <<"code">>).val), say |-> TRUE,
          msg |-> modelMessage(
                    Str(<<FixNote>> \o StringOf(Prop(o.val, <<"explanation">>).val)),
                    "none", FALSE)]

\* lines 97 to 109 of handleFixError for the outcome o of the awaited call
fixReply(o) ==
    IF o.threw \/ Prop(o.val, <<"code">>).threw
    THEN [set |-> FALSE, code |-> <<>>, say |-> FALSE,
          msg |-> modelMessage(Undefined, "none", FALSE)]
    ELSE [set |-> TRUE, code |-> textOf(Prop(o.val, <<"code">>).val), say |-> TRUE,
          msg |-> modelMessage(
                    Str(<<FixNote>> \o StringOf(Prop(o.val, <<"explanation">>).val)),
                    "none", FALSE)]

\* the model's raw text in the field of its answer e (undefined: there is none)
rawOf(e, field) ==
    IF parsedContent(e).threw THEN Undefined
    ELSE Prop(parsedContent(e).val, field).val

RemoveAt(q, i) == SubSeq(q, 1, i - 1) \o SubSeq(q, i + 1, Len(q))

\* the model's answers to a generate request: a fenced diagram, a chat
\* message, a refused connection
GenerateAnswers ==
    { Http(TRUE, Envelope(Str(JSONstringify(Reply("code", Str(FencedDiagram)))))),
      Http(TRUE, Envelope(Str(JSONstringify(Reply("message", Str(<<"hello">>)))))),
      FetchRejected }

\* the model's answers to a fix request: a fix, an answer without code, a
\* refused connection
FixAnswers ==
    { Http(TRUE, Envelope(Str(JSONstringify(
            Obj(<<Member(<<"code">>, Str(FencedDiagram)),
                  Member(<<"explanation">>, Str(<<"arrow">>))>>))))),
      Http(TRUE, Envelope(Str(JSONstringify(Reply("message", Str(<<"hello">>)))))),
      FetchRejected }

GalleryCode == <<"flowchart", " ", "TD", "\n", "A", "-->", "B">>

\* what the user may type into the code editor
EditorCodes == { <<>>, <<"graph", " ", "TD", "\n", "A", "-->">> }

\* what the user may submit: [text, attachment, type]
Submissions ==
    { [text |-> <<"draw">>, attachment |-> "none", type |-> "flowchart"],
      [text |-> <<" ">>, attachment |-> "none", type |-> "auto"] }

ShellInit ==
    /\ CleanIdle
    /\ PatchIdle
    /\ GatewayIdle
    /\ mermaidCode = GalleryCode
    /\ showPalette = FALSE
    /\ themeEdits = NoThemeEdits
    /\ colorReplacements = <<>>
    /\ edits = 0
    /\ applies = 0
    /\ applied = NothingApplied
    /\ renders = <<>>
    /\ svgContent = NoSvg
    /\ chatHistory = <<>>
    /\ isProcessing = FALSE
    /\ isFixing = FALSE
    /\ genCalls = <<>>
    /\ fixCalls = <<>>
    /\ error = NoError
    /\ stale = TRUE
    /\ stored = NothingStored
    /\ activeTab = "chat"
    /\ rendered = chatHistory

\* the request the route makes of the call's arguments
requested(history, code, type) ==
    [history |-> history, code |-> code, type |-> type,
     messages |-> buildMessages(history, code, type)]

\* the answers to chat submissions in a transcript: results of type 'code' or
\* 'message' and the fallback message of the catch
IsReply(msg) ==
    msg.role = "model" /\ (msg.type \in {"code", "message"} \/ msg.isError)

Replies(history) == Cardinality({j \in 1..Len(history) : IsReply(history[j])})

\* the ChatPanel's isLoading in Page's last render: an answer that is not yet
\* rendered has its setIsProcessing(false) not yet rendered either
isLoading == isProcessing \/ Replies(chatHistory) > Replies(rendered)

\* lines 52 and 53: [...chatHistory, newMessage] of the handler's closure is
\* set as the new state
updatedHistory(newMessage) == Append(rendered, newMessage)

\* ChatPanel.handleSubmit and handleSendMessage up to its await; the chat
\* panel is there while the chat tab is the active one
Submit(text, attachment, type) ==
    /\ activeTab = "chat"
    /\ canSubmit(text, attachment, isLoading)
    /\ Len(chatHistory) < MaxHistory
    /\ isProcessing' = TRUE
    /\ chatHistory' = updatedHistory(userMessage(text, attachment))
    /\ genCalls' = Append(genCalls,
            requested(updatedHistory(userMessage(text, attachment)),
                      mermaidCode, type))
    /\ rendered' = chatHistory'
    /\ UNCHANGED <<mermaidCode, isFixing, fixCalls, error, stale, stored, activeTab>>
    /\ UNCHANGED <<cleanVars, patchVars, gatewayVars, paletteRest>>

\* the handler's effect on the source and the transcript: rep from sendReply
\* or fixReply, modelText the model's text and arg the source that was submitted;
\* stored keeps the last source set by a handler, and whether a fix call has
\* been rejected since
Settled(rep, by, modelText, arg) ==
    /\ chatHistory' = IF rep.say THEN Append(chatHistory, rep.msg) ELSE chatHistory
    /\ mermaidCode' = IF rep.set THEN rep.code ELSE mermaidCode
    /\ stale' = (stale \/ (rep.set /\ rep.code # mermaidCode))
    /\ stored' = IF rep.set
                 THEN [by |-> by, code |-> rep.code, raw |-> modelText, arg |-> arg,
                       rejected |-> FALSE]
                 ELSE [stored EXCEPT !.rejected = (by = "fix")]

\* the model's raw text in each answer, by the field that holds it
modelTexts ==
    [e \in GenerateAnswers \cup FixAnswers, field \in {CONTENT, <<"code">>} |->
        rawOf(e, field)]

\* what handleSendMessage does from its await on, by the key's presence and
\* the model's answer: the client's call of the route, then lines 59 to 88
sendOutcomes ==
    [key \in BOOLEAN, e \in GenerateAnswers |->
        sendReply(GeminiService_generateFromHistory(POST(key, "generate", <<>>, e)))]

\* the transcript of Page's next render after a continuation or a timer has
\* queued its updates: React renders them in a later task, and an event that
\* comes before it (late) is handled by the closures of the last render
afterQueued(late) == IF late THEN rendered ELSE chatHistory'

\* handleSendMessage from its await on, e the model's answer to call i
GenerateReturns(i, e, late) ==
    /\ i \in 1..Len(genCalls)
    /\ Settled(sendOutcomes[apiKey, e], "generate", modelTexts[e, CONTENT], <<>>)
    /\ genCalls' = RemoveAt(genCalls, i)
    /\ isProcessing' = FALSE
    /\ rendered' = afterQueued(late)
    /\ UNCHANGED <<isFixing, fixCalls, error, activeTab>>
    /\ UNCHANGED <<cleanVars, patchVars, gatewayVars, paletteRest>>

\* the renderer's fix button is shown with the error and disabled while fixing
canFix(err, fixing) == err.shown /\ ~fixing

\* onFixError(code, error) and handleFixError up to its await
ClickFix ==
    /\ canFix(error, isFixing)
    /\ Len(chatHistory) < MaxHistory
    /\ isFixing' = TRUE
    /\ fixCalls' = Append(fixCalls, [code |-> mermaidCode, error |-> error.of])
    /\ UNCHANGED <<mermaidCode, chatHistory, isProcessing, genCalls, error, stale,
                   stored, activeTab, rendered>>
    /\ UNCHANGED <<cleanVars, patchVars, gatewayVars, paletteRest>>

\* the sources the shell can hold
ShellCodes ==
    {GalleryCode, cleanCode(FencedDiagram)} \cup EditorCodes
        \cup {cleanCode(c) : c \in EditorCodes}

\* the outcome of the client's fixDiagram, by the key's presence, the
\* submitted source and the model's answer
fixResults ==
    [key \in BOOLEAN, code \in ShellCodes, e \in FixAnswers |->
        GeminiService_fixDiagram(POST(key, "fix", code, e))]

\* what handleFixError does from its await on
fixOutcomes ==
    [key \in BOOLEAN, code \in ShellCodes, e \in FixAnswers |->
        fixReply(fixResults[key, code, e])]

\* handleFixError from its await on, e the model's answer to call i
FixReturns(i, e, late) ==
    /\ i \in 1..Len(fixCalls)
    /\ Settled(fixOutcomes[apiKey, fixCalls[i].code, e],
               "fix", modelTexts[e, <<"code">>], fixCalls[i].code)
    /\ fixCalls' = RemoveAt(fixCalls, i)
    /\ isFixing' = FALSE
    /\ activeTab' = IF fixOutcomes[apiKey, fixCalls[i].code, e].set
                    THEN "chat" ELSE activeTab
    /\ rendered' = afterQueued(late)
    /\ UNCHANGED <<isProcessing, genCalls, error>>
    /\ UNCHANGED <<cleanVars, patchVars, gatewayVars, paletteRest>>

\* the code editor's onChange; the editor is there while the code tab is the
\* active one
EditCode(c) ==
    /\ activeTab = "code"
    /\ c # mermaidCode
    /\ mermaidCode' = c
    /\ stale' = TRUE
    /\ UNCHANGED <<chatHistory, isProcessing, isFixing, genCalls, fixCalls, error,
                   stored, activeTab, rendered>>
    /\ UNCHANGED <<cleanVars, patchVars, gatewayVars, paletteRest>>

\* window.mermaid.render is the mermaid library's: of its grammar the model
\* keeps one rule, an arrow needs a target
mermaidRejects(code) == code # <<>> /\ code[Len(code)] = "-->"

\* the render effect's timer fires: nothing happens for an empty source, else
\* the error is cleared and mermaid renders the source or rejects it
Render ==
    /\ stale
    /\ stale' = FALSE
    /\ error' = IF mermaidCode = <<>> THEN error
                ELSE IF mermaidRejects(mermaidCode)
                THEN [shown |-> TRUE, of |-> mermaidCode]
                ELSE NoError
    /\ UNCHANGED <<mermaidCode, chatHistory, isProcessing, isFixing, genCalls,
                   fixCalls, stored, activeTab, rendered>>
    /\ UNCHANGED <<cleanVars, patchVars, gatewayVars, paletteRest>>

TemplateLoadedText == "<template loaded:>"

ChangeNoticeText == "<the diagram is loaded, say how to change it>"

\* a tab button of the left panel
SelectTab(tab) ==
    /\ tab # activeTab
    /\ activeTab' = tab
    /\ UNCHANGED <<mermaidCode, chatHistory, isProcessing, isFixing, genCalls,
                   fixCalls, error, stale, stored, rendered>>
    /\ UNCHANGED <<cleanVars, patchVars, gatewayVars, paletteRest>>

\* loadExample for a template of the gallery, a click handler: React renders
\* its updates before the next event
LoadExample(code) ==
    /\ Len(chatHistory) < MaxHistory
    /\ mermaidCode' = code
    /\ stale' = (stale \/ code # mermaidCode)
    /\ chatHistory' = Append(chatHistory,
            modelMessage(Str(<<TemplateLoadedText, "name">>), "none", FALSE))
    /\ rendered' = Append(rendered,
            modelMessage(Str(<<TemplateLoadedText, "name">>), "none", FALSE))
    /\ UNCHANGED <<isProcessing, isFixing, genCalls, fixCalls, error, stored, activeTab>>
    /\ UNCHANGED <<cleanVars, patchVars, gatewayVars, paletteRest>>

\* the renderer's change request reaches Page's onRequestChange from the
\* timer of handleChatSubmit
RequestChange(late) ==
    /\ Len(chatHistory) < MaxHistory
    /\ activeTab' = "chat"
    /\ chatHistory' = Append(chatHistory,
            modelMessage(Str(<<ChangeNoticeText>>), "none", FALSE))
    /\ rendered' = afterQueued(late)
    /\ UNCHANGED <<mermaidCode, isProcessing, isFixing, genCalls, fixCalls, error,
                   stale, stored>>
    /\ UNCHANGED <<cleanVars, patchVars, gatewayVars, paletteRest>>

\* React renders Page with the state updates that the continuations of the
\* awaited calls and the timers have queued; the handlers of the new render
\* close over that state
Rerender ==
    /\ rendered # chatHistory
    /\ rendered' = chatHistory
    /\ UNCHANGED <<mermaidCode, chatHistory, isProcessing, isFixing, genCalls,
                   fixCalls, error, stale, stored, activeTab>>
    /\ UNCHANGED <<cleanVars, patchVars, gatewayVars, paletteRest>>

\* the steps of the shell, lates saying whether an event can come before the
\* render of the updates that a continuation or a timer has queued
ShellStep(lates) ==
    \/ \E s \in Submissions : Submit(s.text, s.attachment, s.type)
    \/ \E i \in 1..Len(genCalls), e \in GenerateAnswers, late \in lates :
            GenerateReturns(i, e, late)
    \/ ClickFix
    \/ \E i \in 1..Len(fixCalls), e \in FixAnswers, late \in lates :
            FixReturns(i, e, late)
    \/ \E c \in EditorCodes : EditCode(c)
    \/ Render
    \/ \E tab \in {"chat", "code"} : SelectTab(tab)
    \/ LoadExample(GalleryCode)
    \/ \E late \in lates : RequestChange(late)

\* every queued update is rendered before the next event
ShellNext == ShellStep({FALSE})

\* an event can come before the render of queued updates
LateNext == ShellStep(BOOLEAN) \/ Rerender

SpecShell == ShellInit /\ [][ShellNext]_vars

\* the shell with renders that can come after the next event
SpecShellLate == ShellInit /\ [][LateNext]_vars

(***************************************************************************)
(* Claims about the Interactive Shell                                      *)
(***************************************************************************)
\* the text the cleaner is given when a source is stored: the model's text, or
\* for a fix whose answer has no code (route.ts line 248, result.code || code)
\* the source that was submitted
cleanerInput(st) ==
    IF st.by = "fix" /\ ~Truthy(st.raw) THEN st.arg ELSE textOf(st.raw)

\* C13 as stated: every diagram source the shell stores from a model response
\* (a 'code' result of generateFromHistory or the code returned by fixDiagram)
\* is the Output Cleaner's output for the model's raw diagram text.
C13_StoredIsCleanedModelText ==
    stored.by # "none" =>
        stored.raw.t = "str" /\ stored.code = cleanCode(stored.raw.s)

\* C13: every diagram source the shell stores from a model response is the
\* Output Cleaner's output, for the model's raw diagram text when the answer
\* has one, and for the submitted source when a fix answer has no code.
C13_StoredIsCleaned ==
    stored.by # "none" => stored.code = cleanCode(cleanerInput(stored))

\* a fenced model text was stored by handleSendMessage, without its fence
C13_Witness ==
    /\ stored.by = "generate"
    /\ startsWith(stored.raw.s, Fence)
    /\ stored.code = GalleryCode

\* a message content holds the text h: in the string itself or in one of the
\* text parts of an array content
Mentions(content, h) ==
    CASE content.t = "str" -> Contains(content.s, h)
      [] content.t = "arr" ->
            \E j \in 1..Len(content.c) : \E k \in 1..Len(content.c[j].c) :
                /\ content.c[j].c[k].v.t = "str"
                /\ Contains(content.c[j].c[k].v.s, h)
      [] OTHER -> FALSE

Carries(q, h) == \E j \in 1..Len(q.messages) : Mentions(q.messages[j].content, h)

LastIsUser(q) == q.history # <<>> /\ q.history[Len(q.history)].role = "user"

\* C14: whenever generateFromHistory is called with a non-empty current source
\* (or a diagram type other than 'auto') and the last turn of the history is
\* a user turn, the request to the model carries that source (that type) as a
\* context hint, whether or not the last turn has an attachment.
C14_RequestCarriesContext ==
    \A i \in 1..Len(genCalls) :
        LastIsUser(genCalls[i]) =>
            /\ genCalls[i].code # <<>> =>
                    Carries(genCalls[i], <<CodeHint, "\n">> \o genCalls[i].code)
            /\ genCalls[i].type # "auto" =>
                    Carries(genCalls[i], <<TypeHint, " ", genCalls[i].type>>)

\* the same for the calls whose last turn has a text and no attachment
C14_TextTurnCarriesContext ==
    \A i \in 1..Len(genCalls) :
        /\ LastIsUser(genCalls[i])
        /\ genCalls[i].history[Len(genCalls[i].history)].attachment = "none"
        /\ Truthy(genCalls[i].history[Len(genCalls[i].history)].content)
        => /\ genCalls[i].code # <<>> =>
                    Carries(genCalls[i], <<CodeHint, "\n">> \o genCalls[i].code)
           /\ genCalls[i].type # "auto" =>
                    Carries(genCalls[i], <<TypeHint, " ", genCalls[i].type>>)

\* C15: while an inference call is outstanding the UI disables duplicate
\* submission: in every reachable state at most one generateFromHistory call
\* is in flight (isProcessing is true while it is) and at most one fixDiagram
\* call is in flight (isFixing is true while it is).
C15_AtMostOneCallEach ==
    /\ Len(genCalls) <= 1
    /\ Len(fixCalls) <= 1
    /\ isProcessing = (genCalls # <<>>)
    /\ isFixing = (fixCalls # <<>>)

\* a generate call and a fix call are in flight together, with something to
\* submit again
C15_Witness ==
    /\ Len(genCalls) = 1
    /\ Len(fixCalls) = 1
    /\ error.shown
    /\ Len(chatHistory) < MaxHistory

(***************************************************************************)
(* The shell with its awaited calls settling: fetch resolves or rejects,   *)
(* so the handler of a call in flight goes on past its await.  Neither     *)
(* client nor route sets a timeout: that each call settles is assumed.     *)
(***************************************************************************)
SpecShellLive ==
    /\ ShellInit
    /\ [][ShellNext]_vars
    /\ WF_vars(\E i \in 1..Len(genCalls), e \in GenerateAnswers :
                    GenerateReturns(i, e, FALSE))
    /\ WF_vars(\E i \in 1..Len(fixCalls), e \in FixAnswers : FixReturns(i, e, FALSE))

UserTurns(history) ==
    Cardinality({j \in 1..Len(history) : history[j].role = "user"})

\* C16: after every chat submission, whether the inference call succeeds or
\* fails, isProcessing eventually returns to false with a model reply or a
\* fallback message appended to the transcript for it; after every fix
\* request isFixing eventually returns to false.
C16_EveryRequestSettles ==
    /\ [](isProcessing =>
            <>(~isProcessing /\ Replies(chatHistory) = UserTurns(chatHistory)))
    /\ [](isFixing => <>(~isFixing))

\* a submission whose call failed has been answered by the fallback message
C16_Witness ==
    /\ ~isProcessing
    /\ ~isFixing
    /\ chatHistory # <<>>
    /\ chatHistory[Len(chatHistory)].type = "message"
    /\ chatHistory[Len(chatHistory)].content = Prop(FallbackMessage, CONTENT).val

\* C18: the error shown is the renderer's diagnostic for the current source,
\* and triggering the automatic fix submits the current broken source together
\* with that diagnostic: every fixDiagram call is made with a source and the
\* diagnostic of that source.
C18_FixSubmitsSourceWithItsDiagnostic ==
    /\ error.shown => error.of = mermaidCode
    /\ \A i \in 1..Len(fixCalls) : fixCalls[i].error = fixCalls[i].code

\* once the render effect has run for a source that is not empty, an error
\* that is shown is the diagnostic of that source
C18_RenderedErrorIsOfSource ==
    (~stale /\ mermaidCode # <<>> /\ error.shown) => error.of = mermaidCode

(***************************************************************************)
(* Claims about the literal colors and the editor fields (SpecPalette)     *)
(***************************************************************************)
\* what the map makes of a color literal: its entry's new value when it is an
\* old color of the map, else the literal itself
recolored(lit, reps) ==
    IF \E j \in 1..Len(reps) : reps[j].k = lit
    THEN reps[CHOOSE j \in 1..Len(reps) : reps[j].k = lit].v.s
    ELSE lit

\* the color literals a of the returned text are the literals b of the
\* reassembled text, each recolored by the map
LiteralsRecolored(b, a, reps) ==
    /\ Len(a) = Len(b)
    /\ \A i \in 1..Len(b) : a[i] = recolored(b[i], reps)

\* C21: the literal-color replacement changes only exact occurrences of the
\* old color token: a color literal that merely contains an old color as a
\* prefix is not altered, and every color literal not in the map is left
\* unchanged.
C21_OnlyExactOccurrencesReplaced ==
    (applies > 0 /\ ~applied.threw) =>
        LiteralsRecolored(matchAllHex(applied.reassembled, 1),
                          matchAllHex(applied.text, 1), applied.reps)

\* C22: after the palette has applied a text color, a primary color and a
\* line color, reopening the palette on the resulting source shows exactly
\* those three values: the sync effect sets the three fields to the values
\* that were applied.
C22_ReopenShowsApplied ==
    [][(applies > 0 /\ ~applied.threw /\ mermaidCode = applied.text
            /\ ~showPalette /\ showPalette')
        => themeEdits' = applied.te]_vars

\* the same for the primary color and the line color when no literal color
\* was replaced
C22_ReopenShowsPrimaryAndLine ==
    [][(applies > 0 /\ ~applied.threw /\ mermaidCode = applied.text
            /\ applied.reps = <<>> /\ ~showPalette /\ showPalette')
        => /\ themeEdits'.primaryColor = applied.te.primaryColor
           /\ themeEdits'.lineColor = applied.te.lineColor]_vars

(***************************************************************************)
(* Request harness: the route's generateFromHistory called with a history, *)
(* a current source and a diagram type                                     *)
(***************************************************************************)
MaxSent == 2

\* turns of a history: with text, with an attachment, with both, with neither
SentTurns ==
    { userMessage(<<"draw">>, "none"),
      userMessage(<<"draw">>, "image/png"),
      userMessage(<<>>, "application/pdf"),
      userMessage(<<>>, "none"),
      modelMessage(Str(<<"hello">>), "message", FALSE),
      modelMessage(Undefined, "message", FALSE) }

RequestInit ==
    /\ CleanIdle
    /\ PatchIdle
    /\ GatewayIdle
    /\ mermaidCode \in {<<>>, GalleryCode}
    /\ showPalette = FALSE
    /\ themeEdits = NoThemeEdits
    /\ colorReplacements = <<>>
    /\ edits = 0
    /\ applies = 0
    /\ applied = NothingApplied
    /\ renders = <<>>
    /\ svgContent = NoSvg
    /\ chatHistory \in SeqsUpTo(SentTurns, MaxSent)
    /\ isProcessing = FALSE
    /\ isFixing = FALSE
    /\ genCalls = <<>>
    /\ fixCalls = <<>>
    /\ error = NoError
    /\ stale = FALSE
    /\ stored = NothingStored
    /\ activeTab = "chat"
    /\ rendered = chatHistory

\* POST with action 'generate': generateFromHistory(history, currentCode,
\* diagramType) builds its request
BuildRequest(type) ==
    /\ genCalls = <<>>
    /\ genCalls' = <<requested(chatHistory, mermaidCode, type)>>
    /\ UNCHANGED <<mermaidCode, chatHistory, isProcessing, isFixing, fixCalls, error,
                   stale, stored, activeTab, rendered>>
    /\ UNCHANGED <<cleanVars, patchVars, gatewayVars, paletteRest>>

RequestNext == \E type \in {"auto", "flowchart"} : BuildRequest(type)

SpecRequest == RequestInit /\ [][RequestNext]_vars

\* the messages after the system message are the turns, one each, in order,
\* with their roles
TurnsInOrder(history, messages) ==
    /\ Len(messages) = Len(history) + 1
    /\ \A j \in 1..Len(history) : messages[j + 1].role = roleOf(history[j])

\* a turn with neither text nor attachment
IsEmptyTurn(msg) == ~Truthy(msg.content) /\ msg.attachment = "none"

\* C23: the request built by generateFromHistory carries the conversation in
\* order: every turn of the history maps to exactly one outgoing message, in
\* the same relative order, role 'user' kept and role 'model' mapped to the
\* assistant role; no turn is dropped, a turn whose text is empty included.
C23_EveryTurnSent ==
    \A i \in 1..Len(genCalls) :
        TurnsInOrder(genCalls[i].history, genCalls[i].messages)

\* the same for the histories without a turn that has neither text nor
\* attachment
C23_EveryNonEmptyTurnSent ==
    \A i \in 1..Len(genCalls) :
        (\A j \in 1..Len(genCalls[i].history) : ~IsEmptyTurn(genCalls[i].history[j]))
            => TurnsInOrder(genCalls[i].history, genCalls[i].messages)

(***************************************************************************)
(* Claims about late answers and the transcript (SpecShell)                *)
(***************************************************************************)
\* C24: a model response never overwrites a newer source: when the source was
\* changed (edit, template load, other inference call) after a request was
\* issued, the handler that settles the request leaves the source as it is.
C24_LateAnswerKeepsNewerSource ==
    [][/\ (\E i \in 1..Len(genCalls) :
              /\ genCalls' = RemoveAt(genCalls, i)
              /\ genCalls[i].code # mermaidCode) => mermaidCode' = mermaidCode
       /\ (\E i \in 1..Len(fixCalls) :
              /\ fixCalls' = RemoveAt(fixCalls, i)
              /\ fixCalls[i].code # mermaidCode) => mermaidCode' = mermaidCode]_vars

\* an answer that sets no source leaves a newer source as it is
C24_MessageAnswerKeepsSource ==
    [][(\E i \in 1..Len(genCalls) :
              /\ genCalls' = RemoveAt(genCalls, i)
              /\ genCalls[i].code # mermaidCode
              /\ chatHistory'[Len(chatHistory')].type # "code")
          => mermaidCode' = mermaidCode]_vars

\* history h is kept in history g: g begins with h
KeptIn(h, g) == Len(h) <= Len(g) /\ SubSeq(g, 1, Len(h)) = h

\* C28: the transcript is append-only under every interleaving of
\* submissions, responses, fix results, template loads and change-request
\* notices: no message is ever removed, replaced or reordered.
C28_TranscriptAppendOnly == [][KeptIn(chatHistory, chatHistory')]_vars

\* a step that is not a submission keeps the whole transcript and appends at
\* most one message to it
C28_OnlySubmitDrops ==
    [][Len(genCalls') <= Len(genCalls)
          => /\ KeptIn(chatHistory, chatHistory')
             /\ Len(chatHistory') <= Len(chatHistory) + 1]_vars

(***************************************************************************)
(* Claims about failed and incomplete fixes (SpecShell)                    *)
(***************************************************************************)
\* C29: when fixDiagram rejects, the handler leaves the source, the transcript
\* and the active tab as they are and sets isFixing to false; when the fix
\* response has no code field, the code returned, which the handler stores,
\* is the cleaned original source.
C29_FailedFixChangesNothing ==
    [][\A i \in 1..Len(fixCalls), e \in FixAnswers :
          FixReturns(i, e, FALSE) =>
            /\ fixResults[apiKey, fixCalls[i].code, e].threw =>
                  /\ mermaidCode' = mermaidCode
                  /\ chatHistory' = chatHistory
                  /\ activeTab' = activeTab
                  /\ isFixing' = FALSE
            /\ (/\ ~fixResults[apiKey, fixCalls[i].code, e].threw
                /\ ~Truthy(modelTexts[e, <<"code">>])) =>
                  /\ Prop(fixResults[apiKey, fixCalls[i].code, e].val, <<"code">>).val
                        = Str(cleanCode(fixCalls[i].code))
                  /\ mermaidCode' = cleanCode(fixCalls[i].code)]_vars

\* a fix call was rejected: the broken source and its error are still there
\* and the fix button is enabled again
C29_Witness ==
    /\ stored.rejected
    /\ ~isFixing
    /\ fixCalls = <<>>
    /\ error.shown
    /\ mermaidCode = error.of
    /\ activeTab = "code"

(***************************************************************************)
(* Claims about repeated patching (SpecPatch)                              *)
(***************************************************************************)
\* a source with no directive block or with exactly one, well-formed
AtMostOneGoodBlock(s) ==
    CountBlocks(s) = 0 \/ (CountBlocks(s) = 1 /\ WellFormedFirst(s))

\* C26: after any sequence of applyOverrides calls starting from a source
\* with no directive block or with exactly one well-formed block, the diagram
\* source contains exactly one directive block; repeated recoloring never
\* accumulates blocks.
C26_ExactlyOneBlock ==
    (calls > 0 /\ AtMostOneGoodBlock(src0)) => CountBlocks(src) = 1

\* a second call has patched the block that the first call inserted into a
\* source without one
C26_Witness ==
    /\ calls = 2
    /\ CountBlocks(src0) = 0
    /\ src0 # <<>>
    /\ ~ret.threw
    /\ lastOv # <<>>
    /\ before # src
    /\ CountBlocks(before) = 1
    /\ CountBlocks(src) = 1

\* C27: applyOverrides is idempotent for fixed overrides: for every source
\* and every overrides mapping o, applying o to the result of applying o
\* returns that result, byte for byte.
C27_Idempotent ==
    \A o \in OverrideSets :
        /\ ~updateInitConfig(src, o).threw
        /\ ~updateInitConfig(updateInitConfig(src, o).text, o).threw
        /\ updateInitConfig(updateInitConfig(src, o).text, o).text
              = updateInitConfig(src, o).text

\* a call that returns is idempotent: the same overrides applied to its
\* result return the result
C27_IdempotentWhenReturned ==
    \A o \in OverrideSets :
        ~updateInitConfig(src, o).threw =>
            /\ ~updateInitConfig(updateInitConfig(src, o).text, o).threw
            /\ updateInitConfig(updateInitConfig(src, o).text, o).text
                  = updateInitConfig(src, o).text

(***************************************************************************)
(* Claims about applying an untouched palette (SpecPalette)                *)
(***************************************************************************)
\* C30: opening the color palette and applying it without editing any field
\* leaves the diagram source unchanged, for every source, with or without a
\* directive block.
C30_UntouchedApplyKeepsSource ==
    [][(showPalette /\ edits = 0 /\ applies' = applies + 1)
          => mermaidCode' = mermaidCode]_vars

(***************************************************************************)
(* Render harness: MermaidRenderer's render effect, step by step.  The     *)
(* effect runs for each code; its cleanup runs when the code changes.      *)
(* stale says that the effect's timer is pending.                          *)
(***************************************************************************)
MaxRenders == 2

\* the diagram sources the renderer is given: none, two diagrams, a broken one
RenderCodes ==
    { <<>>,
      GalleryCode,
      <<"graph", " ", "TD", "\n", "A", "-->", "B">>,
      <<"graph", " ", "TD", "\n", "A", "-->">> }

RenderInit ==
    /\ CleanIdle
    /\ PatchIdle
    /\ GatewayIdle
    /\ chatHistory = <<>>
    /\ isProcessing = FALSE
    /\ isFixing = FALSE
    /\ genCalls = <<>>
    /\ fixCalls = <<>>
    /\ error = NoError
    /\ stale = TRUE
    /\ stored = NothingStored
    /\ activeTab = "chat"
    /\ rendered = chatHistory
    /\ mermaidCode \in RenderCodes
    /\ showPalette = FALSE
    /\ themeEdits = NoThemeEdits
    /\ colorReplacements = <<>>
    /\ edits = 0
    /\ applies = 0
    /\ applied = NothingApplied
    /\ renders = <<>>
    /\ svgContent = NoSvg

renderShellRest ==
    <<chatHistory, isProcessing, isFixing, genCalls, fixCalls, stored, activeTab, rendered>>

renderPaletteRest ==
    <<showPalette, themeEdits, colorReplacements, edits, applies, applied>>

\* the cleanup's active = false, for every call of the effect it belongs to
deactivated(run) == [run EXCEPT !.active = FALSE]

\* the code prop changes: the effect's cleanup (active = false, clearTimeout,
\* observer.disconnect), then the effect for the new code sets its timer
CodeChanges(c) ==
    /\ c # mermaidCode
    /\ mermaidCode' = c
    /\ renders' = [i \in 1..Len(renders) |-> deactivated(renders[i])]
    /\ stale' = TRUE
    /\ UNCHANGED <<svgContent, error>>
    /\ UNCHANGED <<cleanVars, patchVars, gatewayVars, renderShellRest, renderPaletteRest>>

\* renderDiagram up to its await: nothing for an empty code, else
\* setError(null) and the call of window.mermaid.render
renderDiagram(by) ==
    IF mermaidCode = <<>>
    THEN UNCHANGED <<renders, error>>
    ELSE /\ error' = NoError
         /\ renders' = Append(renders, [of |-> mermaidCode, active |-> TRUE, by |-> by])

\* the timer of the effect fires after its delay
TimerFires ==
    /\ stale
    /\ Len(renders) < MaxRenders
    /\ stale' = FALSE
    /\ renderDiagram("timer")
    /\ UNCHANGED <<mermaidCode, svgContent>>
    /\ UNCHANGED <<cleanVars, patchVars, gatewayVars, renderShellRest, renderPaletteRest>>

\* the class of the document element changes (light or dark theme): the
\* effect's observer calls renderDiagram at once
ThemeChanges ==
    /\ Len(renders) < MaxRenders
    /\ renderDiagram("observer")
    /\ UNCHANGED <<mermaidCode, svgContent, stale>>
    /\ UNCHANGED <<cleanVars, patchVars, gatewayVars, renderShellRest, renderPaletteRest>>

ifActive_Always(run) == TRUE

\* if (active), after the await and in the catch
ifActive(run) == run.active

\* window.mermaid.render settles for call i: renderDiagram from its await on
RenderSettles(i) ==
    /\ i \in 1..Len(renders)
    /\ renders' = RemoveAt(renders, i)
    /\ svgContent' = IF ifActive(renders[i]) /\ ~mermaidRejects(renders[i].of)
                     THEN [shown |-> TRUE, of |-> renders[i].of]
                     ELSE svgContent
    /\ error' = IF ifActive(renders[i]) /\ mermaidRejects(renders[i].of)
                THEN [shown |-> TRUE, of |-> renders[i].of]
                ELSE error
    /\ UNCHANGED <<mermaidCode, stale>>
    /\ UNCHANGED <<cleanVars, patchVars, gatewayVars, renderShellRest, renderPaletteRest>>

RenderNext ==
    \/ \E c \in RenderCodes : CodeChanges(c)
    \/ TimerFires
    \/ ThemeChanges
    \/ \E i \in 1..Len(renders) : RenderSettles(i)

SpecRender == RenderInit /\ [][RenderNext]_vars

(***************************************************************************)
(* Claims about superseded renders (SpecRender)                            *)
(***************************************************************************)
\* the completion of a render of a superseded code changes neither the
\* displayed SVG nor the error, and what a step displays is of the present code
SupersededNotApplied ==
    /\ \A i \in 1..Len(renders) :
          (renders' = RemoveAt(renders, i) /\ ~renders[i].active)
              => (svgContent' = svgContent /\ error' = error)
    /\ svgContent' # svgContent => svgContent'.of = mermaidCode
    /\ (error' # error /\ error'.shown) => error'.of = mermaidCode

\* the renders of the present effect that are awaiting mermaid, by starter
startedBy(by) == {i \in 1..Len(renders) : renders[i].active /\ renders[i].by = by}

\* C25 as stated: a render result for a superseded diagram source is never
\* applied (its completion updates neither the displayed SVG nor the error),
\* and no render is started for a code value that is replaced within the
\* 100 ms delay.
C25_NoRenderWithinDelay ==
    [][/\ SupersededNotApplied
       /\ (mermaidCode' # mermaidCode /\ stale)
              => (startedBy("timer") = {} /\ startedBy("observer") = {})]_vars

\* C25: a render result for a superseded diagram source is never applied, and
\* the delay timer starts no render for a code value that is replaced within
\* the 100 ms delay; a theme change of the document starts a render of the
\* present code at once, also within the delay.
C25_SupersededNeverApplied ==
    [][/\ SupersededNotApplied
       /\ (mermaidCode' # mermaidCode /\ stale) => startedBy("timer") = {}
       /\ \A i \in 1..Len(renders') :
              (i > Len(renders) /\ renders'[i].by = "timer")
                  => (stale /\ renders'[i].of = mermaidCode)]_vars

\* the render of a replaced code is awaiting mermaid while the SVG of the
\* present code is displayed
C25_Witness ==
    /\ svgContent.shown
    /\ svgContent.of = mermaidCode
    /\ \E i \in 1..Len(renders) :
          /\ ~renders[i].active
          /\ renders[i].of # mermaidCode
          /\ ~mermaidRejects(renders[i].of)

====
